---- MODULE Spec2Model ----
(***************************************************************************)
(* purl2notices: the reconciliation and aggregation engine.                *)
(*                                                                         *)
(* Two processors are modelled side by side, as the repository ships both: *)
(* Purl2Notices (core.py) and Purl2NoticesV2 (core_v2.py, which drives the  *)
(* CombinedExtractor).  Confidences are floats in [0,1] in the source and   *)
(* are scaled by 100 here (1.0 = 100, 0.8 = 80, 0.7 = 70).  Copyright       *)
(* statements are sequences of characters so that strip() and lower() are   *)
(* computed; license texts are strings compared by length and emptiness.    *)
(***************************************************************************)
EXTENDS Integers, Sequences, FiniteSets, TLC

VARIABLES
    variant,      \* "core" (Purl2Notices) or "core_v2" (Purl2NoticesV2)
    mode,         \* cli mode: "kissbom" (process_batch), "scan" (process_directory) or "cache" (process_cache); "merge" and "notices" for _combine_licenses and generate_notices on their own
    purl_list,    \* the identifiers handed to process_batch
    parallel,     \* the concurrency limit P
    semaphore,    \* asyncio.Semaphore._value: the free permits
    pc,           \* per unit of work: position of process_with_limit
    unit,         \* per unit of work: the Package it holds and the exception it raised, if any
    done,         \* the queue of as_completed: finished units in completion order, not yet awaited
    packages,     \* the result list under construction (process_batch / process_directory)
    order,        \* history: for each entry of packages, the unit (or local item) that produced it
    error_log,    \* self.error_log of the processor
    batch,        \* position of process_batch / process_directory
    local,        \* scan mode: the detections without PURL and the unidentified paths, and how many of them have been handled
    m_licenses,   \* _combine_licenses: the LicenseInfo objects of its argument (mutable, shared with the providers' results)
    m_combined,   \* _combine_licenses: the dict `combined`, as the insertion-ordered list of the objects it refers to; _combine_copyrights: the list it returned
    m_pos,        \* _combine_licenses: number of list elements the loop has consumed
    m_input,      \* history: the records of the argument as the providers returned them
    cache,        \* the Cache Store file as readers see it, the document a save is writing, and the number of times the file was replaced
    context,      \* the template context generate_notices builds (None before it ran)
    p_call,       \* a provider operation called on its own: the provider, the operation and its input
    p_result      \* the ExtractionResult that call returned (None before it returned)

vars == <<variant, mode, purl_list, parallel, semaphore, pc, unit, done, packages,
          order, error_log, batch, local, m_licenses, m_combined, m_pos, m_input,
          cache, context, p_call, p_result>>

cliVars == <<cache, context>>

providerVars == <<p_call, p_result>>

batchVars == <<variant, purl_list, parallel, semaphore, pc, unit, done, packages,
               order, error_log, batch, local>>

mergeVars == <<m_licenses, m_combined, m_pos, m_input>>

-----------------------------------------------------------------------------
(* Bounds *)

MaxPurls == 2        \* longest identifier list
MaxParallel == 2     \* largest concurrency limit tried in kissbom mode
MaxLocal == 1        \* most detections without PURL / unidentified paths in one scan
MaxMerge == 3        \* longest argument of _combine_licenses explored on its own
MaxStored == 2       \* most packages in the cache file a run in cache mode finds
MaxNotice == 4       \* longest package list of generate_notices explored on its own
MaxCopyrights == 3   \* longest argument of _combine_copyrights explored on its own

(* Program constants *)

DefaultParallel == 4       \* process_batch(purl_list, parallel=4)
DefaultConfidence == 100   \* LicenseInfo.confidence default (1.0)
OsliliDictConfidence == 80 \* lic_data.get('confidence', 0.8)
OsliliStrConfidence == 70  \* confidence=0.7 for a plain-string license

-----------------------------------------------------------------------------
(* Small helpers *)

RECURSIVE SeqsUpTo(_, _)
SeqsUpTo(S, n) ==
    IF n = 0 THEN {<<>>}
    ELSE LET shorter == SeqsUpTo(S, n - 1)
         IN  shorter \cup {Append(s, x) : s \in {t \in shorter : Len(t) = n - 1}, x \in S}

Range(s) == {s[k] : k \in 1..Len(s)}

Min(a, b) == IF a < b THEN a ELSE b

EmptyMap == <<>>

\* dict.update(other): keys of other overwrite, other keys are kept
MapUpdate(m, other) ==
    [k \in (DOMAIN m) \cup (DOMAIN other) |-> IF k \in DOMAIN other THEN other[k] ELSE m[k]]

-----------------------------------------------------------------------------
(* Strings of the copyright statements *)

LowerChar(ch) == IF ch = "C" THEN "c" ELSE IF ch = "D" THEN "d" ELSE ch

\* str.lower()
Lower(s) == [k \in 1..Len(s) |-> LowerChar(s[k])]

RECURSIVE LStrip(_)
LStrip(s) == IF s # <<>> /\ Head(s) = " " THEN LStrip(Tail(s)) ELSE s

RECURSIVE RStrip(_)
RStrip(s) == IF s # <<>> /\ s[Len(s)] = " " THEN RStrip(SubSeq(s, 1, Len(s) - 1)) ELSE s

\* str.strip()
Strip(s) == RStrip(LStrip(s))

\* copyright_info.statement.strip().lower()
NormalizeStatement(s) == Lower(Strip(s))

-----------------------------------------------------------------------------
(* Reconciliation: CombinedExtractor._combine_licenses / _combine_copyrights *)

UPMEX == "upmex"
OSLILI == "oslili"
PURL2SRC == "purl2src"

LicenseInfo(spdx_id, name, text, source, confidence) ==
    [spdx_id |-> spdx_id, name |-> name, text |-> text, source |-> source,
     confidence |-> confidence]

CopyrightInfo(statement, source) == [statement |-> statement, source |-> source]

\* key = (license_info.spdx_id, license_info.name)
LicenseKey(l) == <<l.spdx_id, l.name>>

\* the same test with a confidence tie won by the later record
ReplacesOnTie(license_info, existing) ==
    \/ license_info.confidence >= existing.confidence
    \/ (license_info.text # "" /\ existing.text = "")

\* the test that makes a later record take the place of the one held for its key
Replaces(license_info, existing) ==
    \/ license_info.confidence > existing.confidence
    \/ (license_info.text # "" /\ existing.text = "")

\* the test that copies a later record's text into the record held for its key
TakesText(license_info, existing) ==
    /\ license_info.text # ""
    /\ existing.text # ""
    /\ Len(license_info.text) > Len(existing.text)

\* the same iteration with a replaced key moved to the end of the dict
CombineLicensesStepReinsert(st, i) ==
    LET license_info == st.objs[i]
        hits == {p \in 1..Len(st.combined) :
                    LicenseKey(st.objs[st.combined[p]]) = LicenseKey(license_info)}
    IN  IF hits = {}
        THEN [st EXCEPT !.combined = Append(@, i)]
        ELSE LET p == CHOOSE q \in hits : TRUE
                 e == st.combined[p]
                 existing == st.objs[e]
             IN  IF Replaces(license_info, existing)
                 THEN [st EXCEPT !.combined =
                          Append(SubSeq(@, 1, p - 1) \o SubSeq(@, p + 1, Len(@)), i)]
                 ELSE IF TakesText(license_info, existing)
                      THEN [st EXCEPT !.objs[e].text = license_info.text]
                      ELSE st

\* One iteration of the loop over `licenses`.  st.objs are the LicenseInfo
\* objects of the argument, st.combined the objects the dict holds, by index
\* and in insertion order: assigning to an existing key keeps its position,
\* and `existing.text = ...` writes into the object the provider returned.
CombineLicensesStep(st, i) ==
    LET license_info == st.objs[i]
        hits == {p \in 1..Len(st.combined) :
                    LicenseKey(st.objs[st.combined[p]]) = LicenseKey(license_info)}
    IN  IF hits = {}
        THEN [st EXCEPT !.combined = Append(@, i)]
        ELSE LET p == CHOOSE q \in hits : TRUE
                 e == st.combined[p]
                 existing == st.objs[e]
             IN  IF Replaces(license_info, existing)
                 THEN [st EXCEPT !.combined[p] = i]
                 ELSE IF TakesText(license_info, existing)
                      THEN [st EXCEPT !.objs[e].text = license_info.text]
                      ELSE st

RECURSIVE CombineLicensesLoop(_, _)
CombineLicensesLoop(st, i) ==
    IF i > Len(st.objs) THEN st
    ELSE CombineLicensesLoop(CombineLicensesStep(st, i), i + 1)

\* list(combined.values())
CombinedValues(st) == [k \in 1..Len(st.combined) |-> st.objs[st.combined[k]]]

CombineLicenses(licenses) ==
    CombinedValues(CombineLicensesLoop([objs |-> licenses, combined |-> <<>>], 1))

\* the same loop comparing the statements as they are
RECURSIVE CombineCopyrightsLoopExact(_, _, _, _)
CombineCopyrightsLoopExact(copyrights, i, seen_statements, combined) ==
    IF i > Len(copyrights) THEN combined
    ELSE LET normalized == copyrights[i].statement
         IN  IF normalized \notin seen_statements
             THEN CombineCopyrightsLoopExact(copyrights, i + 1,
                      seen_statements \cup {normalized}, Append(combined, copyrights[i]))
             ELSE CombineCopyrightsLoopExact(copyrights, i + 1, seen_statements, combined)

RECURSIVE CombineCopyrightsLoop(_, _, _, _)
CombineCopyrightsLoop(copyrights, i, seen_statements, combined) ==
    IF i > Len(copyrights) THEN combined
    ELSE LET normalized == NormalizeStatement(copyrights[i].statement)
         IN  IF normalized \notin seen_statements
             THEN CombineCopyrightsLoop(copyrights, i + 1,
                      seen_statements \cup {normalized}, Append(combined, copyrights[i]))
             ELSE CombineCopyrightsLoop(copyrights, i + 1, seen_statements, combined)

CombineCopyrights(copyrights) == CombineCopyrightsLoop(copyrights, 1, {}, <<>>)

-----------------------------------------------------------------------------
(* The license merge on its own: any argument list over a small universe *)

MergeUniverse ==
    {LicenseInfo("MIT", "MIT", t, s, c) :
        t \in {"", "t", "tt"}, s \in {UPMEX, OSLILI}, c \in {OsliliDictConfidence, DefaultConfidence}}
    \cup {LicenseInfo("Apache-2.0", "Apache-2.0", t, OSLILI, OsliliStrConfidence) : t \in {"", "t"}}
    \cup {LicenseInfo("MIT", "MIT License", "", UPMEX, DefaultConfidence)}

\* the for loop of _combine_licenses, one element per step
CombineLicensesIter ==
    /\ mode = "merge"
    /\ m_pos < Len(m_licenses)
    /\ LET st == CombineLicensesStep([objs |-> m_licenses, combined |-> m_combined], m_pos + 1)
       IN  /\ m_licenses' = st.objs
           /\ m_combined' = st.combined
    /\ m_pos' = m_pos + 1
    /\ UNCHANGED <<mode, m_input>>
    /\ UNCHANGED batchVars
    /\ UNCHANGED cliVars
    /\ UNCHANGED providerVars

\* the value _combine_licenses returns once the loop is over
m_result == [k \in 1..Len(m_combined) |-> m_licenses[m_combined[k]]]

m_done == mode = "merge" /\ m_pos = Len(m_licenses)

-----------------------------------------------------------------------------
(* Data model: models.Package / License / Copyright / ProcessingStatus *)

PENDING == "pending"
SUCCESS == "success"
NO_LICENSE == "no_license"
NO_COPYRIGHT == "no_copyright"
UNAVAILABLE == "unavailable"
FAILED == "failed"

TerminalStatuses == {SUCCESS, NO_LICENSE, NO_COPYRIGHT, UNAVAILABLE, FAILED}

None == "None"

\* error_message is None or a string; a string is kept as the list of the parts it was built from
NoMessage == [is_none |-> TRUE, parts |-> <<>>]
Message(parts) == [is_none |-> FALSE, parts |-> parts]

\* Package(purl=..., name=..., source_path=...): status defaults to PENDING, lists are empty
NewPackage(purl, name, source_path) ==
    [purl |-> purl, name |-> name, licenses |-> <<>>, copyrights |-> <<>>,
     metadata |-> EmptyMap, status |-> PENDING, error_message |-> NoMessage,
     source_path |-> source_path]

License(spdx_id, name, text, source) ==
    [spdx_id |-> spdx_id, name |-> name, text |-> text, source |-> source]

Copyright(statement) == [statement |-> statement]

\* the "Update status" rule that closes _combine_metadata, _process_with_oslili_only
\* and _extraction_to_package
StatusFor(licenses, copyrights) ==
    IF licenses = <<>> THEN NO_LICENSE
    ELSE IF copyrights = <<>> THEN NO_COPYRIGHT
    ELSE SUCCESS

-----------------------------------------------------------------------------
(* What the third-party libraries hand back.  outcome: "ok" (a non-empty     *)
(* result), "empty" (a falsy result), "raise" (the call raised), "missing"   *)
(* (the library cannot be imported).  A license dict carries spdx_id, id,    *)
(* name, text and confidence; "" and NoConfidence stand for an absent key.   *)

NoConfidence == 0 - 1

RawLicense(spdx_id, name, text, confidence) ==
    [spdx_id |-> spdx_id, id |-> "", name |-> name, text |-> text, confidence |-> confidence]

RawOutput(outcome, licenses, copyrights) ==
    [outcome |-> outcome, licenses |-> licenses, copyrights |-> copyrights]

-----------------------------------------------------------------------------
(* extractors/base.py: ExtractionResult and the BaseExtractor helpers *)

ExtractionResult(success, licenses, copyrights, metadata, errors, source) ==
    [success |-> success, licenses |-> licenses, copyrights |-> copyrights,
     metadata |-> metadata, errors |-> errors, source |-> source]

Failure(errors, metadata, source) == ExtractionResult(FALSE, <<>>, <<>>, metadata, errors, source)

\* BaseExtractor.normalize_license_id
NormalizeLicenseId(id) == IF id = "" THEN "NOASSERTION" ELSE id

\* BaseExtractor.parse_copyright_statement: the statement is kept as observed
ParseCopyrightStatement(statement, source) == CopyrightInfo(statement, source)

RECURSIVE DedupLicensesLoop(_, _, _, _)
DedupLicensesLoop(licenses, i, seen, unique) ==
    IF i > Len(licenses) THEN unique
    ELSE IF LicenseKey(licenses[i]) \in seen
         THEN DedupLicensesLoop(licenses, i + 1, seen, unique)
         ELSE DedupLicensesLoop(licenses, i + 1, seen \cup {LicenseKey(licenses[i])},
                                Append(unique, licenses[i]))

\* BaseExtractor.deduplicate_licenses
DeduplicateLicenses(licenses) == DedupLicensesLoop(licenses, 1, {}, <<>>)

\* BaseExtractor.deduplicate_copyrights
DeduplicateCopyrights(copyrights) == CombineCopyrightsLoop(copyrights, 1, {}, <<>>)

-----------------------------------------------------------------------------
(* extractors/upmex_extractor.py, oslili_extractor.py, purl2src_extractor.py *)

FirstNonEmpty(a, b, c) == IF a # "" THEN a ELSE IF b # "" THEN b ELSE c

UpmexMetadata ==
    [k \in {"package_name", "package_version", "description", "homepage",
            "repository", "authors"} |-> UPMEX]

OsliliMetadata ==
    [k \in {"files_scanned", "detection_method", "confidence_score"} |-> OSLILI]

Purl2SrcMetadata ==
    [k \in {"download_url", "repository_url", "homepage_url"} |-> PURL2SRC]

\* UpmexExtractor.extract_from_path
UpmexExtractFromPath(raw, path) ==
    CASE raw.outcome = "missing" ->
            Failure(<< <<"upmex library not available">> >>, EmptyMap, UPMEX)
      [] raw.outcome = "raise" ->
            Failure(<< <<"upmex raised", path>> >>, EmptyMap, UPMEX)
      [] raw.outcome = "empty" ->
            Failure(<< <<"No metadata extracted from", path>> >>, EmptyMap, UPMEX)
      [] OTHER ->
            LET licenses == [k \in 1..Len(raw.licenses) |->
                    LET lic_data == raw.licenses[k]
                    IN  LicenseInfo(
                            NormalizeLicenseId(FirstNonEmpty(lic_data.spdx_id, lic_data.id, lic_data.name)),
                            lic_data.name, lic_data.text, UPMEX, DefaultConfidence)]
                copyrights == [k \in 1..Len(raw.copyrights) |->
                    ParseCopyrightStatement(raw.copyrights[k], UPMEX)]
            IN  ExtractionResult(TRUE, DeduplicateLicenses(licenses),
                    DeduplicateCopyrights(copyrights), UpmexMetadata, <<>>, UPMEX)

\* OsliliExtractor.extract_from_path
OsliliExtractFromPath(raw, path) ==
    CASE raw.outcome = "missing" ->
            Failure(<< <<"oslili library not available">> >>, EmptyMap, OSLILI)
      [] raw.outcome = "raise" ->
            Failure(<< <<"oslili raised", path>> >>, EmptyMap, OSLILI)
      [] raw.outcome = "empty" ->
            Failure(<< <<"No information extracted from", path>> >>, EmptyMap, OSLILI)
      [] OTHER ->
            LET licenses == [k \in 1..Len(raw.licenses) |->
                    LET lic_data == raw.licenses[k]
                    IN  LicenseInfo(
                            NormalizeLicenseId(FirstNonEmpty(lic_data.spdx_id, lic_data.id,
                                IF lic_data.name = "" THEN "NOASSERTION" ELSE lic_data.name)),
                            lic_data.name, lic_data.text, OSLILI,
                            IF lic_data.confidence = NoConfidence
                            THEN OsliliDictConfidence ELSE lic_data.confidence)]
                parsed == [k \in 1..Len(raw.copyrights) |->
                    ParseCopyrightStatement(raw.copyrights[k], OSLILI)]
                copyrights == SelectSeq(parsed, LAMBDA c : c.statement # <<>>)
            IN  ExtractionResult(TRUE, DeduplicateLicenses(licenses),
                    DeduplicateCopyrights(copyrights), OsliliMetadata, <<>>, OSLILI)

\* Purl2SrcExtractor.extract_from_purl; resolution is what purl2src.get_download_url
\* does: "url" (a result with a url), "none" (no result), "raise"
Purl2SrcExtractFromPurl(resolution, purl) ==
    CASE resolution = "url" -> ExtractionResult(TRUE, <<>>, <<>>, Purl2SrcMetadata, <<>>, PURL2SRC)
      [] resolution = "none" ->
            Failure(<< <<"No download URL found for", purl>> >>, EmptyMap, PURL2SRC)
      [] OTHER -> Failure(<< <<"purl2src raised", purl>> >>, EmptyMap, PURL2SRC)

-----------------------------------------------------------------------------
(* The world outside the engine: for each identifier, whether it is a valid  *)
(* PURL, what resolution, download and the two libraries do for it, and      *)
(* whether an unexpected exception is raised in the engine's own code        *)
(* (fault: "validate" in PurlValidator.validate / the Package constructor    *)
(* before the try block, "merge" in the merge of the providers' data,        *)
(* "cleanup" in the removal of the downloaded artifact).                     *)

St_Cx == <<"C", "x">>
St_cx == <<"c", "x", " ">>
St_D == <<"D">>

Scenario(valid, fault, resolution, download, upmex, oslili) ==
    [valid |-> valid, fault |-> fault, resolution |-> resolution, download |-> download,
     upmex |-> upmex, oslili |-> oslili]

RawMIT == RawLicense("MIT", "MIT", "", NoConfidence)
RawMITText == RawLicense("MIT", "MIT", "t", NoConfidence)
RawNothing == RawOutput("ok", <<>>, <<>>)
RawRaise == RawOutput("raise", <<>>, <<>>)

World(purl) ==
    CASE purl = "pkg:npm/demo@1.0.0" ->
            Scenario(TRUE, "none", "url", "ok",
                RawOutput("ok", <<RawMIT>>, <<St_Cx>>), RawOutput("ok", <<RawMITText>>, <<St_cx>>))
      [] purl = "pkg:npm/bare@1.0.0" ->
            Scenario(TRUE, "none", "url", "ok", RawNothing, RawOutput("ok", <<>>, <<St_D>>))
      [] purl = "pkg:npm/mit@1.0.0" ->
            Scenario(TRUE, "none", "url", "ok",
                RawOutput("ok", <<RawMIT>>, <<>>), RawOutput("empty", <<>>, <<>>))
      [] purl = "pkg:pypi/ghost@1.0" ->
            Scenario(TRUE, "none", "none", "ok", RawNothing, RawNothing)
      [] purl = "pkg:pypi/flaky@1.0" ->
            Scenario(TRUE, "none", "raise", "ok", RawNothing, RawNothing)
      [] purl = "pkg:pypi/lost@1.0" ->
            Scenario(TRUE, "none", "url", "http_error", RawNothing, RawNothing)
      [] purl = "pkg:pypi/reset@1.0" ->
            Scenario(TRUE, "none", "url", "raise", RawNothing, RawNothing)
      [] purl = "pkg:pypi/broken@1.0" ->
            Scenario(TRUE, "none", "url", "ok", RawRaise, RawRaise)
      [] purl = "pkg:gem/odd@1.0" ->
            Scenario(TRUE, "merge", "url", "ok",
                RawOutput("ok", <<RawMIT>>, <<St_Cx>>), RawOutput("ok", <<RawMITText>>, <<St_D>>))
      [] purl = "pkg:gem/locked@1.0" ->
            Scenario(TRUE, "cleanup", "url", "ok",
                RawOutput("ok", <<RawMIT>>, <<St_Cx>>), RawNothing)
      [] purl = "pkg:gem/crash@1.0" ->
            Scenario(TRUE, "validate", "url", "ok", RawNothing, RawNothing)
      [] purl = "pkg:npm/@acme/demo@1.0.0" ->
            Scenario(TRUE, "none", "url", "ok", RawNothing, RawOutput("ok", <<>>, <<St_D>>))
      [] OTHER ->
            Scenario(FALSE, "none", "none", "ok", RawNothing, RawNothing)

Purls ==
    {"pkg:npm/demo@1.0.0", "pkg:npm/bare@1.0.0", "pkg:npm/mit@1.0.0", "pkg:pypi/ghost@1.0",
     "pkg:pypi/flaky@1.0", "pkg:pypi/lost@1.0", "pkg:pypi/reset@1.0", "pkg:pypi/broken@1.0",
     "pkg:gem/odd@1.0", "pkg:gem/locked@1.0", "pkg:gem/crash@1.0", "invalid-purl",
     "pkg:npm/@acme/demo@1.0.0"}

\* type, name and version of a PURL, which the name of the artifact file is
\* made of (f"{type}_{name}_{version}"): the namespace is no part of it
Coordinates(purl) ==
    IF purl = "pkg:npm/@acme/demo@1.0.0" THEN "pkg:npm/demo@1.0.0" ELSE purl

\* the file the artifact of a PURL is downloaded to
PackagePath(purl) == <<"downloads", Coordinates(purl)>>

-----------------------------------------------------------------------------
(* core.py: Purl2Notices *)

\* what a step of process_single_purl hands on: the package, the entries it
\* appended to error_log, whether it stopped at the download (suspended) and
\* whether an exception left process_single_purl (raised)
Outcome(package, log, suspended, raised) ==
    [package |-> package, log |-> log, suspended |-> suspended, raised |-> raised]

\* Package(purl=purl_string, status=FAILED) of the validation branch
InvalidPackage(purl) ==
    [NewPackage(purl, "", None) EXCEPT
        !.status = FAILED,
        !.error_message = Message(<< <<"Invalid PURL", purl>> >>)]

WithStatus(package, status, message) ==
    [package EXCEPT !.status = status, !.error_message = message]

\* the license loops of _combine_metadata: first record per spdx_id
RECURSIVE CoreLicensesLoop(_, _, _, _)
CoreLicensesLoop(data, i, licenses_seen, licenses) ==
    IF i > Len(data) THEN licenses
    ELSE LET lic_data == data[i].lic
             spdx_id == IF lic_data.spdx_id = "" THEN "NOASSERTION" ELSE lic_data.spdx_id
         IN  IF spdx_id \notin licenses_seen
             THEN CoreLicensesLoop(data, i + 1, licenses_seen \cup {spdx_id},
                      Append(licenses,
                          License(spdx_id, IF lic_data.name = "" THEN spdx_id ELSE lic_data.name,
                                  lic_data.text, data[i].source)))
             ELSE CoreLicensesLoop(data, i + 1, licenses_seen, licenses)

\* the copyright loops of _combine_metadata: first occurrence of each exact string
RECURSIVE CoreCopyrightsLoop(_, _, _, _)
CoreCopyrightsLoop(data, i, copyrights_seen, copyrights) ==
    IF i > Len(data) THEN copyrights
    ELSE IF data[i] \notin copyrights_seen
         THEN CoreCopyrightsLoop(data, i + 1, copyrights_seen \cup {data[i]},
                  Append(copyrights, Copyright(data[i])))
         ELSE CoreCopyrightsLoop(data, i + 1, copyrights_seen, copyrights)

Tagged(licenses, source) == [k \in 1..Len(licenses) |-> [lic |-> licenses[k], source |-> source]]

\* the dict _extract_metadata_upmex / _extract_metadata_oslili returns: {} when the library raised
CoreData(raw) == IF raw.outcome = "ok" THEN raw ELSE RawOutput("ok", <<>>, <<>>)

\* Purl2Notices._combine_metadata
CombineMetadata(package, upmex_data, oslili_data) ==
    LET licenses == CoreLicensesLoop(
            Tagged(upmex_data.licenses, UPMEX) \o Tagged(oslili_data.licenses, OSLILI),
            1, {}, package.licenses)
        copyrights == CoreCopyrightsLoop(upmex_data.copyrights \o oslili_data.copyrights,
            1, {}, package.copyrights)
    IN  [package EXCEPT !.licenses = licenses, !.copyrights = copyrights,
                        !.status = StatusFor(licenses, copyrights)]

\* a process_single_purl that goes on to the resolution without looking at is_valid
CoreBeginUnvalidated(purl) ==
    LET env == World(purl)
        package == NewPackage(purl, purl, None)
    IN  IF env.fault = "validate" THEN Outcome(package, <<>>, FALSE, TRUE)
        ELSE IF env.resolution # "url"
        THEN Outcome(
                WithStatus(package, UNAVAILABLE, Message(<< <<"Could not resolve download URL">> >>)),
                << <<"No download URL for", purl>> >>, FALSE, FALSE)
        ELSE Outcome(package, <<>>, TRUE, FALSE)

\* Purl2Notices.process_single_purl up to the download
CoreBegin(purl) ==
    LET env == World(purl)
        package == NewPackage(purl, purl, None)
    IN  IF env.fault = "validate" THEN Outcome(package, <<>>, FALSE, TRUE)
        ELSE IF ~env.valid
        THEN Outcome(InvalidPackage(purl), << <<"PURL validation failed", purl>> >>, FALSE, FALSE)
        ELSE IF env.resolution # "url"
        THEN Outcome(
                WithStatus(package, UNAVAILABLE, Message(<< <<"Could not resolve download URL">> >>)),
                (IF env.resolution = "raise" THEN << <<"purl2src error for", purl>> >> ELSE <<>>)
                    \o << <<"No download URL for", purl>> >>,
                FALSE, FALSE)
        ELSE Outcome(package, <<>>, TRUE, FALSE)

\* Purl2Notices.process_single_purl from the end of the download on
CoreResume(purl, package) ==
    LET env == World(purl)
        logs == (IF env.upmex.outcome = "raise"
                 THEN << <<"upmex error for", PackagePath(purl)>> >> ELSE <<>>)
             \o (IF env.oslili.outcome = "raise"
                 THEN << <<"oslili error for", PackagePath(purl)>> >> ELSE <<>>)
        failed == WithStatus(package, FAILED, Message(<< <<"exception", env.fault>> >>))
        combined == CombineMetadata(package, CoreData(env.upmex), CoreData(env.oslili))
    IN  IF env.download # "ok"
        THEN Outcome(
                WithStatus(package, UNAVAILABLE, Message(<< <<"Could not download package">> >>)),
                (IF env.download = "raise" THEN << <<"Download error for", purl>> >> ELSE <<>>)
                    \o << <<"Download failed for", purl>> >>,
                FALSE, FALSE)
        ELSE IF env.fault = "merge"
        THEN Outcome(failed, logs \o << <<"Processing error for", purl>> >>, FALSE, FALSE)
        ELSE IF env.fault = "cleanup"
        THEN Outcome(WithStatus(combined, FAILED, Message(<< <<"exception", env.fault>> >>)),
                     logs \o << <<"Processing error for", purl>> >>, FALSE, FALSE)
        ELSE Outcome(combined, logs, FALSE, FALSE)

\* Purl2Notices._process_with_oslili_only: the package, or None when oslili raised
ProcessWithOsliliOnly(path, raw) ==
    LET licenses == [k \in 1..Len(raw.licenses) |->
            LET lic_data == raw.licenses[k]
            IN  License(IF lic_data.spdx_id = "" THEN "NOASSERTION" ELSE lic_data.spdx_id,
                        IF lic_data.name = "" THEN "Unknown" ELSE lic_data.name,
                        lic_data.text, OSLILI)]
        copyrights == [k \in 1..Len(raw.copyrights) |-> Copyright(raw.copyrights[k])]
    IN  [NewPackage(None, path, path) EXCEPT
            !.licenses = licenses, !.copyrights = copyrights,
            !.status = StatusFor(licenses, copyrights)]

-----------------------------------------------------------------------------
(* core_v2.py: Purl2NoticesV2, and CombinedExtractor.extract_from_purl / _path *)

\* the providers' lists that enter the merge: a failed provider contributes its errors only
Gathered(upmex_result, oslili_result) ==
    [licenses |-> (IF upmex_result.success THEN upmex_result.licenses ELSE <<>>)
                  \o (IF oslili_result.success THEN oslili_result.licenses ELSE <<>>),
     copyrights |-> (IF upmex_result.success THEN upmex_result.copyrights ELSE <<>>)
                    \o (IF oslili_result.success THEN oslili_result.copyrights ELSE <<>>),
     errors |-> (IF upmex_result.success THEN <<>> ELSE upmex_result.errors)
                \o (IF oslili_result.success THEN <<>> ELSE oslili_result.errors)]

\* the same with each successful provider's mapping taking the place of the
\* mapping gathered before it
GatheredMetadataReplace(metadata, upmex_result, oslili_result) ==
    LET m1 == IF upmex_result.success THEN upmex_result.metadata ELSE metadata
    IN  IF oslili_result.success THEN oslili_result.metadata ELSE m1

GatheredMetadata(metadata, upmex_result, oslili_result) ==
    LET m1 == IF upmex_result.success THEN MapUpdate(metadata, upmex_result.metadata) ELSE metadata
    IN  IF oslili_result.success THEN MapUpdate(m1, oslili_result.metadata) ELSE m1

\* CombinedExtractor.extract_from_purl, steps 1 and 2 up to the download:
\* a failure result, or the metadata gathered so far when the download starts
ExtractFromPurlBegin(purl) ==
    LET env == World(purl)
        purl2src_result == Purl2SrcExtractFromPurl(env.resolution, purl)
    IN  IF ~purl2src_result.success
        THEN [suspended |-> FALSE,
              result |-> Failure(purl2src_result.errors, EmptyMap, PURL2SRC)]
        ELSE [suspended |-> TRUE,
              result |-> ExtractionResult(TRUE, <<>>, <<>>,
                             MapUpdate(EmptyMap, purl2src_result.metadata), <<>>, None)]

\* CombinedExtractor.extract_from_purl from the end of the download on (steps 3
\* to 5), where env tells what the download gave and what the libraries find
\* in the file at package_path
ExtractFromPurlResumeIn(env, purl, metadata) ==
    LET upmex_result == UpmexExtractFromPath(env.upmex, PackagePath(purl))
        oslili_result == OsliliExtractFromPath(env.oslili, PackagePath(purl))
        all == Gathered(upmex_result, oslili_result)
        merged_metadata == GatheredMetadata(metadata, upmex_result, oslili_result)
    IN  IF env.download # "ok"
        THEN Failure(<< <<"Failed to download package">> >>, metadata, None)
        ELSE IF env.fault = "merge"
        THEN Failure(<< <<"exception", env.fault>> >>, merged_metadata, None)
        ELSE ExtractionResult(TRUE, CombineLicenses(all.licenses),
                 CombineCopyrights(all.copyrights), merged_metadata, all.errors, None)

\* the same when the file at package_path is the artifact of the PURL
ExtractFromPurlResume(purl, metadata) == ExtractFromPurlResumeIn(World(purl), purl, metadata)

\* the predicate extract_from_path reports as `success`
PathSuccess(combined_licenses, combined_copyrights) ==
    combined_licenses # <<>> \/ combined_copyrights # <<>>

\* CombinedExtractor.extract_from_path
ExtractFromPath(path, is_package_file, upmex_raw, oslili_raw) ==
    LET oslili_result == OsliliExtractFromPath(oslili_raw, path)
        upmex_result == IF is_package_file THEN UpmexExtractFromPath(upmex_raw, path)
                        ELSE ExtractionResult(TRUE, <<>>, <<>>, EmptyMap, <<>>, UPMEX)
        all == Gathered(upmex_result, oslili_result)
        combined_licenses == CombineLicenses(all.licenses)
        combined_copyrights == CombineCopyrights(all.copyrights)
    IN  ExtractionResult(PathSuccess(combined_licenses, combined_copyrights),
            combined_licenses, combined_copyrights,
            GatheredMetadata(EmptyMap, upmex_result, oslili_result), all.errors, None)

\* the same conversion putting the providers' errors on the package
ExtractionToPackageWithErrors(package, extraction) ==
    LET licenses == package.licenses \o
            [k \in 1..Len(extraction.licenses) |->
                License(extraction.licenses[k].spdx_id, extraction.licenses[k].name,
                        extraction.licenses[k].text, extraction.licenses[k].source)]
        copyrights == package.copyrights \o
            [k \in 1..Len(extraction.copyrights) |-> Copyright(extraction.copyrights[k].statement)]
    IN  [package EXCEPT !.licenses = licenses, !.copyrights = copyrights,
                        !.metadata = MapUpdate(@, extraction.metadata),
                        !.status = StatusFor(licenses, copyrights),
                        !.error_message = IF extraction.errors = <<>> THEN @
                                          ELSE Message(extraction.errors)]

\* Purl2NoticesV2._extraction_to_package
ExtractionToPackage(package, extraction) ==
    LET licenses == package.licenses \o
            [k \in 1..Len(extraction.licenses) |->
                License(extraction.licenses[k].spdx_id, extraction.licenses[k].name,
                        extraction.licenses[k].text, extraction.licenses[k].source)]
        copyrights == package.copyrights \o
            [k \in 1..Len(extraction.copyrights) |-> Copyright(extraction.copyrights[k].statement)]
    IN  [package EXCEPT !.licenses = licenses, !.copyrights = copyrights,
                        !.metadata = MapUpdate(@, extraction.metadata),
                        !.status = StatusFor(licenses, copyrights)]

\* the branch of Purl2NoticesV2.process_single_purl taken on the extraction result
V2Settle(package, extraction_result) ==
    IF ~extraction_result.success
    THEN Outcome(WithStatus(package, UNAVAILABLE, Message(extraction_result.errors)),
                 extraction_result.errors, FALSE, FALSE)
    ELSE Outcome(ExtractionToPackage(package, extraction_result), <<>>, FALSE, FALSE)

\* Purl2NoticesV2.process_single_purl up to the download
V2Begin(purl) ==
    LET env == World(purl)
        package == NewPackage(purl, purl, None)
        begun == ExtractFromPurlBegin(purl)
    IN  IF env.fault = "validate" THEN Outcome(package, <<>>, FALSE, TRUE)
        ELSE IF ~env.valid
        THEN Outcome(InvalidPackage(purl), << <<"PURL validation failed", purl>> >>, FALSE, FALSE)
        ELSE IF ~begun.suspended THEN V2Settle(package, begun.result)
        ELSE Outcome(package, <<>>, TRUE, FALSE)

\* Purl2NoticesV2.process_single_purl from the end of the download on
V2ResumeIn(env, purl, package) ==
    V2Settle(package, ExtractFromPurlResumeIn(env, purl, ExtractFromPurlBegin(purl).result.metadata))

V2Resume(purl, package) == V2ResumeIn(World(purl), purl, package)

\* inspecting providers that are called whatever the download gave
ResumeCallsAlways(v, purl) == <<UPMEX, OSLILI>>

\* the providers called once the download is over
ResumeCalls(v, purl) == IF World(purl).download # "ok" THEN <<>> ELSE <<UPMEX, OSLILI>>

\* the providers called for a path without PURL (core: oslili alone)
LocalCalls(v, item) ==
    IF v = "core_v2" /\ item.is_package_file THEN {UPMEX, OSLILI} ELSE {OSLILI}

ProcessSinglePurlBegin(v, purl) == IF v = "core" THEN CoreBegin(purl) ELSE V2Begin(purl)

\* process_single_purl from the end of the download on, where env tells what
\* the providers find in the file (core.py writes, inspects and removes the
\* file without a suspension in between: its file is always its own)
ProcessSinglePurlResumeIn(v, env, purl, package) ==
    IF v = "core" THEN CoreResume(purl, package) ELSE V2ResumeIn(env, purl, package)

ProcessSinglePurlResume(v, purl, package) ==
    ProcessSinglePurlResumeIn(v, World(purl), purl, package)

\* the providers process_single_purl has called when it suspends or returns
\* early: the resolution and the download when it waits for the download, the
\* resolution alone when it gave no url, none when it did not get that far
BeginCalls(v, purl) ==
    LET out == ProcessSinglePurlBegin(v, purl)
    IN  IF out.suspended THEN <<PURL2SRC, "download">>
        ELSE IF ~out.raised /\ out.package.status = UNAVAILABLE THEN <<PURL2SRC>>
        ELSE <<>>

\* The statuses process_single_purl assigns to its package, in the order of
\* the assignments, up to the download: FAILED by the constructor of the
\* validation branch, UNAVAILABLE when no download URL was resolved
BeginStatuses(v, purl) ==
    LET out == ProcessSinglePurlBegin(v, purl)
    IN  IF out.raised \/ out.suspended THEN <<>> ELSE <<out.package.status>>

\* core.py from the end of the download on: `package.status = UNAVAILABLE`
\* when the download failed; else the status _combine_metadata sets at its
\* end, and after it `package.status = FAILED` of the except block when the
\* removal of the artifact raises (an exception inside _combine_metadata
\* reaches the except block before any status was set)
CoreResumeStatuses(purl, package) ==
    LET env == World(purl)
        combined == CombineMetadata(package, CoreData(env.upmex), CoreData(env.oslili))
    IN  IF env.download # "ok" THEN <<UNAVAILABLE>>
        ELSE IF env.fault = "merge" THEN <<FAILED>>
        ELSE IF env.fault = "cleanup" THEN <<combined.status, FAILED>>
        ELSE <<combined.status>>

\* core_v2.py assigns once from the end of the download on: UNAVAILABLE in
\* the `not extraction_result.success` branch, or the status at the end of
\* _extraction_to_package
ResumeStatuses(v, purl, package, out) ==
    IF v = "core" THEN CoreResumeStatuses(purl, package) ELSE <<out.package.status>>

-----------------------------------------------------------------------------
(* The provider operations called on their own: extract_from_purl and        *)
(* extract_from_path of the three extractors and of the CombinedExtractor.   *)

COMBINED == "combined"

\* CombinedExtractor.extract_from_purl from its first line to its return
ExtractFromPurl(purl) ==
    LET begun == ExtractFromPurlBegin(purl)
    IN  IF begun.suspended THEN ExtractFromPurlResume(purl, begun.result.metadata)
        ELSE begun.result

ProviderCall(provider, operation, purl, path, is_package_file, upmex, oslili) ==
    [provider |-> provider, operation |-> operation, purl |-> purl, path |-> path,
     is_package_file |-> is_package_file, upmex |-> upmex, oslili |-> oslili]

\* what upmex.extract / oslili.extract can do for a path
LibraryOutputs ==
    {RawOutput("ok", <<RawMIT>>, <<St_Cx>>), RawNothing, RawOutput("empty", <<>>, <<>>),
     RawRaise, RawOutput("missing", <<>>, <<>>)}

ProviderCalls ==
    {ProviderCall(provider, "purl", purl, None, FALSE, RawNothing, RawNothing) :
        provider \in {UPMEX, OSLILI, PURL2SRC, COMBINED}, purl \in Purls}
    \cup {ProviderCall(provider, "path", None, "artifact", TRUE, raw, raw) :
            provider \in {UPMEX, OSLILI, PURL2SRC}, raw \in LibraryOutputs}
    \cup {ProviderCall(COMBINED, "path", None, "artifact", is_package_file, upmex, oslili) :
            is_package_file \in BOOLEAN, upmex \in LibraryOutputs, oslili \in LibraryOutputs}

\* the ExtractionResult the called operation returns
Invoke(call) ==
    CASE call.provider = UPMEX /\ call.operation = "purl" ->
            Failure(<< <<"upmex requires a downloaded package file">> >>, EmptyMap, UPMEX)
      [] call.provider = UPMEX /\ call.operation = "path" ->
            UpmexExtractFromPath(call.upmex, call.path)
      [] call.provider = OSLILI /\ call.operation = "purl" ->
            Failure(<< <<"oslili requires local files or directories">> >>, EmptyMap, OSLILI)
      [] call.provider = OSLILI /\ call.operation = "path" ->
            OsliliExtractFromPath(call.oslili, call.path)
      [] call.provider = PURL2SRC /\ call.operation = "purl" ->
            Purl2SrcExtractFromPurl(World(call.purl).resolution, call.purl)
      [] call.provider = PURL2SRC /\ call.operation = "path" ->
            Failure(<< <<"purl2src only works with PURLs, not local paths">> >>, EmptyMap, PURL2SRC)
      [] call.provider = COMBINED /\ call.operation = "purl" ->
            ExtractFromPurl(call.purl)
      [] OTHER ->
            ExtractFromPath(call.path, call.is_package_file, call.upmex, call.oslili)

-----------------------------------------------------------------------------
(* Scan mode: what the scanner / the detectors found besides PURLs.          *)
(* kind "package": a detected package without PURL that is taken as it is    *)
(* (core: an identified package without purl; core_v2: a detection without   *)
(* source_file).  kind "path": a path to inspect (core: an unidentified      *)
(* path, handed to oslili alone; core_v2: a detection with a source_file,    *)
(* handed to extract_from_path).                                             *)

LocalItem(kind, path, is_package_file, upmex, oslili) ==
    [kind |-> kind, path |-> path, is_package_file |-> is_package_file,
     upmex |-> upmex, oslili |-> oslili]

LocalItems ==
    {LocalItem("package", "vendored", FALSE, RawNothing, RawNothing),
     LocalItem("path", "src/a", FALSE, RawNothing,
               RawOutput("ok", <<RawMIT, RawMIT>>, <<St_Cx, St_cx>>)),
     LocalItem("path", "b.whl", TRUE, RawOutput("empty", <<>>, <<>>), RawNothing),
     LocalItem("path", "src/c", FALSE, RawNothing, RawRaise)}

\* what oslili returns for the scanned directory itself (the fallback of core_v2)
DirectoryOutputs == {RawRaise, RawOutput("ok", <<RawMITText>>, <<St_D>>)}

\* Purl2NoticesV2._detection_to_package, and the package the core scanner identified
DetectionToPackage(item) ==
    NewPackage(None, item.path, IF item.kind = "path" THEN item.path ELSE None)

\* the packages of the items of one kind, in order
RECURSIVE KindPackages(_, _)
KindPackages(items, kind) ==
    IF items = <<>> THEN <<>>
    ELSE (IF Head(items).kind = kind THEN <<DetectionToPackage(Head(items))>> ELSE <<>>)
         \o KindPackages(Tail(items), kind)

RECURSIVE KindIndexes(_, _, _)
KindIndexes(items, kind, k) ==
    IF k > Len(items) THEN <<>>
    ELSE (IF items[k].kind = kind THEN <<[kind |-> "local", idx |-> k]>> ELSE <<>>)
         \o KindIndexes(items, kind, k + 1)

-----------------------------------------------------------------------------
(* formatter.py: NoticeFormatter._group_by_license.  A license key is a      *)
(* string; it is kept as the sequence of the pieces it is made of, the ids   *)
(* and the separators ", " between them, so that the key of one license is   *)
(* <<spdx_id>> and a joined key is <<id1, ", ", id2, ...>>.                   *)

\* the ids the packages can carry, in the order Python's str comparison puts them
SpdxIds == <<"Apache-2.0", "MIT", "NOASSERTION">>

Rank(id) == CHOOSE k \in 1..Len(SpdxIds) : SpdxIds[k] = id

\* list(dict.fromkeys(...)): first occurrence of each element, in order
RECURSIVE FromKeys(_)
FromKeys(ids) ==
    IF ids = <<>> THEN <<>>
    ELSE LET init == FromKeys(SubSeq(ids, 1, Len(ids) - 1))
             last == ids[Len(ids)]
         IN  IF last \in Range(init) THEN init ELSE Append(init, last)

RECURSIVE InsertSorted(_, _)
InsertSorted(sorted, id) ==
    IF sorted = <<>> THEN <<id>>
    ELSE IF Rank(id) < Rank(Head(sorted)) THEN <<id>> \o sorted
    ELSE <<Head(sorted)>> \o InsertSorted(Tail(sorted), id)

RECURSIVE SortLoop(_, _)
SortLoop(ids, sorted) ==
    IF ids = <<>> THEN sorted ELSE SortLoop(Tail(ids), InsertSorted(sorted, Head(ids)))

\* a key built without sorting
SortIdsAsGiven(ids) == ids

\* sorted(unique_licenses)
SortIds(ids) == SortLoop(ids, <<>>)

\* ", ".join(...)
RECURSIVE Join(_)
Join(ids) ==
    IF ids = <<>> THEN <<>>
    ELSE IF Len(ids) = 1 THEN <<ids[1]>>
    ELSE <<ids[1], ", ">> \o Join(Tail(ids))

\* the license_key of a package that has licenses
GroupKey(package) ==
    LET unique_licenses == FromKeys([k \in 1..Len(package.licenses) |-> package.licenses[k].spdx_id])
    IN  IF Len(unique_licenses) > 1 THEN Join(SortIds(unique_licenses))
        ELSE <<unique_licenses[1]>>

\* groups[license_key].append(package) on a defaultdict(list), kept in insertion order
GroupsAppend(groups, license_key, package) ==
    IF \E g \in 1..Len(groups) : groups[g].key = license_key
    THEN [g \in 1..Len(groups) |->
            IF groups[g].key = license_key
            THEN [groups[g] EXCEPT !.packages = Append(@, package)] ELSE groups[g]]
    ELSE Append(groups, [key |-> license_key, packages |-> <<package>>])

\* a loop body that files a package without licenses under NOASSERTION
GroupPackageAlways(groups, package) ==
    GroupsAppend(groups,
        IF package.licenses # <<>> THEN GroupKey(package) ELSE <<"NOASSERTION">>, package)

\* the body of the loop over the packages
GroupPackage(groups, package) ==
    IF package.licenses # <<>> THEN GroupsAppend(groups, GroupKey(package), package)
    ELSE groups

RECURSIVE GroupLoop(_, _, _)
GroupLoop(list, i, groups) ==
    IF i > Len(list) THEN groups ELSE GroupLoop(list, i + 1, GroupPackage(groups, list[i]))

\* str < str on two keys
RECURSIVE KeyLess(_, _)
KeyLess(a, b) ==
    IF b = <<>> THEN FALSE
    ELSE IF a = <<>> THEN TRUE
    ELSE IF Head(a) = Head(b) THEN KeyLess(Tail(a), Tail(b))
    ELSE Rank(Head(a)) < Rank(Head(b))

RECURSIVE InsertGroup(_, _)
InsertGroup(sorted, group) ==
    IF sorted = <<>> THEN <<group>>
    ELSE IF KeyLess(group.key, Head(sorted).key) THEN <<group>> \o sorted
    ELSE <<Head(sorted)>> \o InsertGroup(Tail(sorted), group)

\* the groups left in the order in which their keys were inserted
SortGroupsAsInserted(groups, sorted) == sorted \o groups

RECURSIVE SortGroups(_, _)
SortGroups(groups, sorted) ==
    IF groups = <<>> THEN sorted ELSE SortGroups(Tail(groups), InsertGroup(sorted, Head(groups)))

\* NoticeFormatter._group_by_license: dict(sorted(groups.items()))
GroupByLicense(list) == SortGroups(GroupLoop(list, 1, <<>>), <<>>)

-----------------------------------------------------------------------------
(* _load_license_texts (core.py, core_v2.py) and the lookup of               *)
(* NoticeFormatter.format.  license_texts is a dict from SPDX id to text.    *)

\* the ids with a file under data/licenses, and what such a file holds
BundledLicenses == {"MIT"}

BundledText(spdx_id) == "bundled"

\* the text of the first license record of the package with this id and a text, "" if none
PackageText(package, spdx_id) ==
    LET hits == {k \in 1..Len(package.licenses) :
                    package.licenses[k].spdx_id = spdx_id /\ package.licenses[k].text # ""}
    IN  IF hits = {} THEN ""
        ELSE package.licenses[CHOOSE k \in hits : \A h \in hits : k <= h].text

\* the packages that carry a text for the id
Carriers(list, spdx_id) == {k \in 1..Len(list) : PackageText(list[k], spdx_id) # ""}

\* the loops stop at the first package that carries a text (core_v2.py: the
\* outer loop breaks once the id is in license_texts)
FirstCarrierText(list, spdx_id) ==
    PackageText(list[CHOOSE k \in Carriers(list, spdx_id) :
                        \A h \in Carriers(list, spdx_id) : k <= h], spdx_id)

\* `break` leaves the inner loop only: every later package that carries a text
\* overwrites the entry (core.py, formatter.py)
LastCarrierText(list, spdx_id) ==
    PackageText(list[CHOOSE k \in Carriers(list, spdx_id) :
                        \A h \in Carriers(list, spdx_id) : k >= h], spdx_id)

\* needed_licenses
NeededLicenses(list) ==
    UNION {{list[k].licenses[j].spdx_id : j \in 1..Len(list[k].licenses)} : k \in 1..Len(list)}
        \ {"", "NOASSERTION"}

\* Purl2Notices._load_license_texts: the bundled file first, the packages otherwise
CoreLoadLicenseTexts(list) ==
    LET found == {id \in NeededLicenses(list) :
                    id \in BundledLicenses \/ Carriers(list, id) # {}}
    IN  [id \in found |-> IF id \in BundledLicenses THEN BundledText(id)
                          ELSE LastCarrierText(list, id)]

\* Purl2NoticesV2._load_license_texts: the packages first, the bundled file otherwise
V2LoadLicenseTexts(list) ==
    LET found == {id \in NeededLicenses(list) :
                    id \in BundledLicenses \/ Carriers(list, id) # {}}
    IN  [id \in found |-> IF Carriers(list, id) # {} THEN FirstCarrierText(list, id)
                          ELSE BundledText(id)]

LoadLicenseTexts(v, list) ==
    IF v = "core" THEN CoreLoadLicenseTexts(list) ELSE V2LoadLicenseTexts(list)

\* NoticeFormatter.format, "Collect all license texts needed": a group key that
\* is the id of a license record with a text gets that text when it has no entry
FormatLicenseTexts(list, groups, license_texts) ==
    IF DOMAIN license_texts = {} THEN license_texts
    ELSE LET added == {groups[g].key[1] : g \in {h \in 1..Len(groups) : Len(groups[h].key) = 1}}
         IN  [id \in DOMAIN license_texts \cup {a \in added : Carriers(list, a) # {}} |->
                IF id \in DOMAIN license_texts THEN license_texts[id]
                ELSE LastCarrierText(list, id)]

\* packages as the processors return them, named by what they hold
NoticePackage(name, licenses) ==
    [NewPackage(None, name, None) EXCEPT
        !.licenses = licenses, !.status = StatusFor(licenses, <<>>)]

NoticePackages ==
    {NoticePackage("mit", <<License("MIT", "MIT", "", UPMEX)>>),
     NoticePackage("mit-text", <<License("MIT", "MIT", "t", OSLILI)>>),
     NoticePackage("apache-mit",
        <<License("Apache-2.0", "Apache-2.0", "", UPMEX), License("MIT", "MIT", "tt", OSLILI)>>),
     NoticePackage("mit-apache",
        <<License("MIT", "MIT", "", OSLILI), License("Apache-2.0", "Apache-2.0", "a", OSLILI)>>),
     NoticePackage("mit-mit",
        <<License("MIT", "MIT", "", OSLILI), License("MIT", "MIT", "", OSLILI)>>),
     NoticePackage("unknown", <<License("NOASSERTION", "Unknown", "u", OSLILI)>>),
     NoticePackage("none", <<>>)}

\* generate_notices / NoticeFormatter.format: the context handed to the template
NoticeContext(v, list, group_by_license, include_license_text) ==
    LET license_texts == IF include_license_text THEN LoadLicenseTexts(v, list) ELSE EmptyMap
        packages_by_license == IF group_by_license THEN GroupByLicense(list) ELSE <<>>
    IN  [packages |-> list,
         group_by_license |-> group_by_license,
         include_license_text |-> include_license_text,
         packages_by_license |-> packages_by_license,
         license_texts |-> IF group_by_license /\ include_license_text
                           THEN FormatLicenseTexts(list, packages_by_license, license_texts)
                           ELSE license_texts]

-----------------------------------------------------------------------------
(* The Cache Store: cache.py (CacheManager) and the to_dict / from_dict of   *)
(* models.py.  The store is one file; a save writes the new document beside  *)
(* it and puts it in its place in one step.                                  *)

CacheVersion == "1.0"

\* License.to_dict / Copyright.to_dict
LicenseToDict(license) ==
    [spdx_id |-> license.spdx_id, name |-> license.name, text |-> license.text,
     source |-> license.source]

CopyrightToDict(copyright) == [statement |-> copyright.statement]

\* Package.to_dict: every field of the record, None as null
PackageToDict(package) ==
    [purl |-> package.purl, name |-> package.name,
     licenses |-> [k \in 1..Len(package.licenses) |-> LicenseToDict(package.licenses[k])],
     copyrights |-> [k \in 1..Len(package.copyrights) |-> CopyrightToDict(package.copyrights[k])],
     metadata |-> package.metadata, status |-> package.status,
     error_message |-> [null |-> package.error_message.is_none,
                        text |-> package.error_message.parts],
     source_path |-> package.source_path]

\* a from_dict that leaves the status to the constructor's default
PackageFromDictDefaultStatus(data) ==
    [NewPackage(data.purl, data.name, data.source_path) EXCEPT
        !.licenses = [k \in 1..Len(data.licenses) |->
            License(data.licenses[k].spdx_id, data.licenses[k].name, data.licenses[k].text,
                    data.licenses[k].source)],
        !.copyrights = [k \in 1..Len(data.copyrights) |-> Copyright(data.copyrights[k].statement)],
        !.metadata = data.metadata,
        !.error_message = IF data.error_message.null THEN NoMessage
                          ELSE Message(data.error_message.text)]

\* Package.from_dict
PackageFromDict(data) ==
    [NewPackage(data.purl, data.name, data.source_path) EXCEPT
        !.licenses = [k \in 1..Len(data.licenses) |->
            License(data.licenses[k].spdx_id, data.licenses[k].name, data.licenses[k].text,
                    data.licenses[k].source)],
        !.copyrights = [k \in 1..Len(data.copyrights) |-> Copyright(data.copyrights[k].statement)],
        !.metadata = data.metadata,
        !.status = data.status,
        !.error_message = IF data.error_message.null THEN NoMessage
                          ELSE Message(data.error_message.text)]

\* the document CacheManager.save writes for a package list
CacheDocument(list) ==
    [version |-> CacheVersion, packages |-> [k \in 1..Len(list) |-> PackageToDict(list[k])]]

\* CacheManager.load
CacheLoad(document) ==
    [k \in 1..Len(document.packages) |-> PackageFromDict(document.packages[k])]

\* the store: the file readers see, the document being written beside it
\* (None when no save is under way) and how often the file was replaced
CacheStore(file, tmp, writes) == [file |-> file, tmp |-> tmp, writes |-> writes]

\* a save that writes into the file itself: readers see the part written so far
SaveStartInPlace(store, document) ==
    CacheStore([document EXCEPT !.packages = SubSeq(@, 1, Len(@) - 1)], document, store.writes)

\* CacheManager.save, first half: the document is written beside the file
SaveStart(store, document) == CacheStore(store.file, document, store.writes)

\* CacheManager.save, second half: the written document takes the file's place
SaveCommitted(store) == CacheStore(store.tmp, None, store.writes + 1)

\* a save that failed or was interrupted: the file is as it was
SaveAbandoned(store) == CacheStore(store.file, None, store.writes)

\* a cli that saves whatever the mode
SavesCacheAlways(cache_enabled, cli_mode) == cache_enabled

\* cli.main: `if cache_file and mode != 'cache'`
SavesCache(cache_enabled, cli_mode) == cache_enabled /\ cli_mode # "cache"

\* the package process_single_purl returns for an identifier, from start to end
PackageOf(v, purl) ==
    LET begun == ProcessSinglePurlBegin(v, purl)
    IN  IF begun.suspended THEN ProcessSinglePurlResume(v, purl, begun.package).package
        ELSE begun.package

\* the packages an earlier run can have saved
StoredPackages(v) == {PackageOf(v, purl) : purl \in {p \in Purls : World(p).fault # "validate"}}

\* the store a run finds when it is not in cache mode
PriorDocument == CacheDocument(<<PackageOf("core", "pkg:npm/mit@1.0.0")>>)

-----------------------------------------------------------------------------
(* asyncio.Semaphore behind `async with semaphore` *)

SemaphoreAcquire(value) == value - 1

\* a semaphore that still hands out a permit at value 0
SemaphoreLockedBelowZero(value) == value < 0

\* Semaphore.locked(): no permit is free, acquire() has to wait
SemaphoreLocked(value) == value = 0

\* a release that gives no permit back
SemaphoreReleaseLost(value) == value

SemaphoreRelease(value) == value + 1

\* an append that leaves failed packages out of the list
AppendPackageUnlessFailed(list, package) ==
    IF package.status = FAILED THEN list ELSE Append(list, package)

\* packages.append(package)
AppendPackage(list, package) == Append(list, package)

Units == 1..Len(purl_list)

\* artifact: the unit whose download made the file this unit handed to its
\* providers (0: none so far); lost: another unit removed this unit's file
NoUnit ==
    [package |-> NewPackage(None, "", None), raised |-> FALSE, calls |-> <<>>,
     statuses |-> <<>>, artifact |-> 0, lost |-> FALSE]

InFlight == {i \in Units : pc[i] = "downloading"}

\* CombinedExtractor._download_package creates the file when the response
\* arrives and writes it while the unit is suspended: the other units in flight
\* whose download goes to the file of unit i
Sharers(i) ==
    {j \in InFlight \ {i} :
        /\ variant = "core_v2"
        /\ PackagePath(purl_list[j]) = PackagePath(purl_list[i])
        /\ World(purl_list[j]).download = "ok"
        /\ ~unit[j].lost}

\* what upmex and oslili do with a file that is not written to its end, or
\* that is no longer there
Unreadable == Scenario(TRUE, "none", "url", "ok", RawRaise, RawRaise)

\* the environment of a unit whose providers are handed a file with that content
FileEnv(purl, content) ==
    [World(purl) EXCEPT !.download = "ok", !.upmex = content.upmex, !.oslili = content.oslili]

\* extract_from_purl removes the file when it gets as far as its clean-up and
\* the removal does not raise
Unlinks(env) == env.download = "ok" /\ env.fault \notin {"merge", "cleanup"}

-----------------------------------------------------------------------------
(* Initial states *)

MergeIdle ==
    /\ m_licenses = <<>>
    /\ m_combined = <<>>
    /\ m_pos = 0
    /\ m_input = <<>>

ProviderIdle ==
    /\ p_call = None
    /\ p_result = None

Init ==
    /\ variant \in {"core", "core_v2"}
    /\ mode \in {"kissbom", "scan", "cache"}
    /\ purl_list \in IF mode = "cache" THEN {<<>>} ELSE SeqsUpTo(Purls, MaxPurls)
    /\ parallel \in IF mode = "kissbom" THEN 0..MaxParallel ELSE {DefaultParallel}
    /\ semaphore = parallel
    /\ pc = [i \in Units |-> "created"]
    /\ unit = [i \in Units |-> NoUnit]
    /\ done = <<>>
    /\ packages = <<>>
    /\ order = <<>>
    /\ error_log = <<>>
    /\ batch = CASE mode = "kissbom" -> "running" [] mode = "scan" -> "scanning" [] OTHER -> "loading"
    /\ local \in [items : IF mode = "scan" THEN SeqsUpTo(LocalItems, MaxLocal) ELSE {<<>>},
                  pos : {0}, calls : {{}}]
    /\ MergeIdle
    /\ cache \in IF mode = "cache"
                 THEN {CacheStore(CacheDocument(list), None, 0) :
                          list \in SeqsUpTo(StoredPackages(variant), MaxStored)}
                 ELSE {CacheStore(PriorDocument, None, 0)}
    /\ context = None
    /\ ProviderIdle

-----------------------------------------------------------------------------
(* process_batch *)

\* process_with_limit(purl) is admitted through the semaphore and runs
\* process_single_purl up to its first suspension (the download), or to its
\* end when it never gets that far
\* the event loop runs the tasks of the units: while process_batch waits for
\* them, and after process_batch alone was cancelled (asyncio.as_completed made
\* the units tasks of their own, which nothing cancels)
LoopRuns == batch \in {"running", "cancelled"}

Admit(i) ==
    /\ LoopRuns
    /\ pc[i] = "created"
    /\ ~SemaphoreLocked(semaphore)
    /\ LET out == ProcessSinglePurlBegin(variant, purl_list[i])
           begun == [package |-> out.package, raised |-> out.raised,
                     calls |-> BeginCalls(variant, purl_list[i]),
                     statuses |-> BeginStatuses(variant, purl_list[i]),
                     artifact |-> 0, lost |-> FALSE]
       IN  \/ /\ unit' = [unit EXCEPT ![i] = begun]
              /\ error_log' = error_log \o out.log
              /\ IF out.suspended
                 THEN /\ pc' = [pc EXCEPT ![i] = "downloading"]
                      /\ semaphore' = SemaphoreAcquire(semaphore)
                      /\ done' = done
                 ELSE /\ pc' = [pc EXCEPT ![i] = "finished"]
                      /\ semaphore' = SemaphoreRelease(SemaphoreAcquire(semaphore))
                      /\ done' = Append(done, i)
           \* "Check if already cached": the file another unit is downloading is
           \* there, _download_package returns it and the unit runs to its end
           \/ /\ out.suspended
              /\ \E j \in Sharers(i) : \E content \in {World(purl_list[j]), Unreadable} :
                    LET env == FileEnv(purl_list[i], content)
                        ended == V2ResumeIn(env, purl_list[i], out.package)
                    IN  /\ unit' = [unit EXCEPT
                               ![i] = [begun EXCEPT
                                          !.package = ended.package,
                                          !.calls = @ \o <<UPMEX, OSLILI>>,
                                          !.statuses = @ \o <<ended.package.status>>,
                                          !.artifact = j],
                               ![j] = [@ EXCEPT !.lost = Unlinks(env)]]
                        /\ error_log' = error_log \o out.log \o ended.log
              /\ pc' = [pc EXCEPT ![i] = "finished"]
              /\ semaphore' = SemaphoreRelease(SemaphoreAcquire(semaphore))
              /\ done' = Append(done, i)
    /\ UNCHANGED <<variant, mode, purl_list, parallel, packages, order, batch, local>>
    /\ UNCHANGED mergeVars
    /\ UNCHANGED providerVars
    /\ UNCHANGED cliVars

\* the download of unit i is over: process_single_purl runs to its end and
\* process_with_limit leaves the `async with` block
Resume(i) ==
    /\ LoopRuns
    /\ pc[i] = "downloading"
    /\ LET purl == purl_list[i]
           env == IF unit[i].lost THEN FileEnv(purl, Unreadable) ELSE World(purl)
           out == ProcessSinglePurlResumeIn(variant, env, purl, unit[i].package)
           \* the file this unit removes is the file of the units that share it
           removed == IF Unlinks(env) /\ ~unit[i].lost THEN SUBSET Sharers(i) ELSE {{}}
       IN  /\ \E victims \in removed :
                 unit' = [k \in Units |->
                     IF k = i
                     THEN [unit[i] EXCEPT
                              !.package = out.package, !.raised = out.raised,
                              !.calls = @ \o ResumeCalls(variant, purl),
                              !.statuses = @ \o ResumeStatuses(variant, purl, unit[i].package, out),
                              !.artifact = IF ResumeCalls(variant, purl) = <<>> THEN 0 ELSE i]
                     ELSE [unit[k] EXCEPT !.lost = @ \/ k \in victims]]
           /\ error_log' = error_log \o out.log
    /\ pc' = [pc EXCEPT ![i] = "finished"]
    /\ semaphore' = SemaphoreRelease(semaphore)
    /\ done' = Append(done, i)
    /\ UNCHANGED <<variant, mode, purl_list, parallel, packages, order, batch, local>>
    /\ UNCHANGED mergeVars
    /\ UNCHANGED providerVars
    /\ UNCHANGED cliVars

\* upmex.extract and oslili.extract are called without a timeout and not
\* awaited: when the call for the file of unit i never returns, the unit never
\* ends and the event loop runs no other task
Hang(i) ==
    /\ LoopRuns
    /\ pc[i] = "downloading"
    /\ ResumeCalls(variant, purl_list[i]) # <<>>
    /\ batch' = "blocked"
    /\ UNCHANGED <<variant, mode, purl_list, parallel, semaphore, pc, unit, done, packages,
                   order, error_log, local>>
    /\ UNCHANGED mergeVars
    /\ UNCHANGED providerVars
    /\ UNCHANGED cliVars

\* process_batch is cancelled while it waits in `await coro`. It has no handler
\* for it: with how = "cancelled" its own task is cancelled in an event loop
\* that keeps running, with how = "interrupted" the loop itself is stopped
\* (an interrupt leaving loop.run_until_complete) and no task runs any more
Cancel ==
    /\ batch = "running"
    /\ \E how \in {"cancelled", "interrupted"} :
          \* another task can cancel only after the first step of every unit
          \* task: the units that found a permit have been admitted
          /\ how = "cancelled" => \A i \in Units : pc[i] = "created" => SemaphoreLocked(semaphore)
          /\ batch' = how
    /\ UNCHANGED <<variant, mode, purl_list, parallel, semaphore, pc, unit, done, packages,
                   order, error_log, local>>
    /\ UNCHANGED mergeVars
    /\ UNCHANGED providerVars
    /\ UNCHANGED cliVars

\* the loop over as_completed awaits the next finished unit: its package is
\* appended, or its exception is raised out of process_batch
Collect ==
    /\ batch = "running"
    /\ done # <<>>
    /\ LET i == Head(done)
       IN  /\ pc' = [pc EXCEPT ![i] = "collected"]
           /\ IF unit[i].raised
              THEN /\ batch' = "raised"
                   /\ UNCHANGED <<packages, order>>
              ELSE /\ packages' = AppendPackage(packages, unit[i].package)
                   /\ order' = Append(order, [kind |-> "unit", idx |-> i])
                   /\ batch' = batch
    /\ done' = Tail(done)
    /\ UNCHANGED <<variant, mode, purl_list, parallel, semaphore, unit, error_log, local>>
    /\ UNCHANGED mergeVars
    /\ UNCHANGED providerVars
    /\ UNCHANGED cliVars

\* process_batch returns its list; in scan mode process_directory goes on with
\* it (core: extends its list and adds the packages without PURL)
Return ==
    /\ batch = "running"
    /\ \A i \in Units : pc[i] = "collected"
    /\ IF mode = "kissbom"
       THEN /\ batch' = "returned"
            /\ UNCHANGED <<packages, order>>
       ELSE /\ batch' = "local"
            /\ packages' = IF variant = "core"
                           THEN packages \o KindPackages(local.items, "package") ELSE packages
            /\ order' = IF variant = "core"
                        THEN order \o KindIndexes(local.items, "package", 1) ELSE order
    /\ UNCHANGED <<variant, mode, purl_list, parallel, semaphore, pc, unit, done, error_log, local>>
    /\ UNCHANGED mergeVars
    /\ UNCHANGED providerVars
    /\ UNCHANGED cliVars

-----------------------------------------------------------------------------
(* process_directory *)

\* the scan and what process_directory does before it calls process_batch
\* (core_v2 puts the detections without PURL and without source_file in its
\* list); with no PURL at all process_batch is not called
ScanDirectory ==
    /\ batch = "scanning"
    /\ batch' = IF purl_list # <<>> THEN "running" ELSE "local"
    /\ IF variant = "core_v2" \/ purl_list = <<>>
       THEN /\ packages' = packages \o KindPackages(local.items, "package")
            /\ order' = order \o KindIndexes(local.items, "package", 1)
       ELSE UNCHANGED <<packages, order>>
    /\ UNCHANGED <<variant, mode, purl_list, parallel, semaphore, pc, unit, done, error_log, local>>
    /\ UNCHANGED mergeVars
    /\ UNCHANGED providerVars
    /\ UNCHANGED cliVars

PathIndexes == {k \in (local.pos + 1)..Len(local.items) : local.items[k].kind = "path"}

\* one round of the loop over the paths without PURL (core: unidentified_paths
\* and _process_with_oslili_only; core_v2: paths_to_process and extract_from_path)
ProcessLocalPath ==
    /\ batch = "local"
    /\ PathIndexes # {}
    /\ LET k == CHOOSE j \in PathIndexes : \A h \in PathIndexes : j <= h
           item == local.items[k]
           extraction == ExtractFromPath(item.path, item.is_package_file, item.upmex, item.oslili)
           package ==
               IF variant = "core" THEN ProcessWithOsliliOnly(item.path, CoreData(item.oslili))
               ELSE IF extraction.success
                    THEN ExtractionToPackage(DetectionToPackage(item), extraction)
                    ELSE DetectionToPackage(item)
           dropped == variant = "core" /\ item.oslili.outcome = "raise"
       IN  /\ local' = [local EXCEPT !.pos = k, !.calls = @ \cup LocalCalls(variant, item)]
           /\ IF dropped
              THEN /\ error_log' = Append(error_log, <<"OSLILI processing error for", item.path>>)
                   /\ UNCHANGED <<packages, order>>
              ELSE /\ packages' = AppendPackage(packages, package)
                   /\ order' = Append(order, [kind |-> "local", idx |-> k])
                   /\ error_log' = error_log
    /\ UNCHANGED <<variant, mode, purl_list, parallel, semaphore, pc, unit, done, batch>>
    /\ UNCHANGED mergeVars
    /\ UNCHANGED providerVars
    /\ UNCHANGED cliVars

\* the end of process_directory; core_v2 scans the directory itself with
\* oslili when nothing at all was detected
FinishDirectory ==
    /\ batch = "local"
    /\ PathIndexes = {}
    /\ batch' = "returned"
    /\ IF variant = "core_v2" /\ packages = <<>> /\ purl_list = <<>> /\ local.items = <<>>
       THEN /\ local' = [local EXCEPT !.calls = @ \cup {OSLILI}]
            /\ \E raw \in DirectoryOutputs :
                LET extraction == OsliliExtractFromPath(raw, "directory")
                IN  IF extraction.success
                    THEN /\ packages' = AppendPackage(packages,
                                ExtractionToPackage(NewPackage(None, "directory", "directory"),
                                                    extraction))
                         /\ order' = Append(order, [kind |-> "directory", idx |-> 0])
                    ELSE UNCHANGED <<packages, order>>
       ELSE UNCHANGED <<packages, order, local>>
    /\ UNCHANGED <<variant, mode, purl_list, parallel, semaphore, pc, unit, done, error_log>>
    /\ UNCHANGED mergeVars
    /\ UNCHANGED providerVars
    /\ UNCHANGED cliVars

-----------------------------------------------------------------------------
(* cli.main once the mode is known: process_cache, the save, generate_notices *)

\* mode 'cache': the package list is what CacheManager.load returns
ProcessCache ==
    /\ batch = "loading"
    /\ packages' = CacheLoad(cache.file)
    /\ order' = [k \in 1..Len(cache.file.packages) |-> [kind |-> "cache", idx |-> k]]
    /\ batch' = "loaded"
    /\ UNCHANGED <<variant, mode, purl_list, parallel, semaphore, pc, unit, done, error_log, local>>
    /\ UNCHANGED mergeVars
    /\ UNCHANGED providerVars
    /\ UNCHANGED cliVars

\* "Save to cache if enabled": with a cache file and outside cache mode the
\* save starts, else main goes on to the notices
SaveCache ==
    /\ batch \in {"returned", "loaded"}
    /\ \E cache_enabled \in BOOLEAN :
          IF SavesCache(cache_enabled, mode)
          THEN /\ cache' = SaveStart(cache, CacheDocument(packages))
               /\ batch' = "saving"
          ELSE /\ cache' = cache
               /\ batch' = "saved"
    /\ UNCHANGED <<variant, mode, purl_list, parallel, semaphore, pc, unit, done, packages,
                   order, error_log, local, context>>
    /\ UNCHANGED mergeVars
    /\ UNCHANGED providerVars

\* the save completes
SaveCommit ==
    /\ batch = "saving"
    /\ cache' = SaveCommitted(cache)
    /\ batch' = "saved"
    /\ UNCHANGED <<variant, mode, purl_list, parallel, semaphore, pc, unit, done, packages,
                   order, error_log, local, context>>
    /\ UNCHANGED mergeVars
    /\ UNCHANGED providerVars

\* the save raises or is interrupted: main reports the error and exits
SaveFail ==
    /\ batch = "saving"
    /\ cache' = SaveAbandoned(cache)
    /\ batch' = "exit"
    /\ UNCHANGED <<variant, mode, purl_list, parallel, semaphore, pc, unit, done, packages,
                   order, error_log, local, context>>
    /\ UNCHANGED mergeVars
    /\ UNCHANGED providerVars

\* processor.generate_notices(packages, ...) with the options of the command line
GenerateNotices ==
    /\ batch = "saved"
    /\ \E group_by_license \in BOOLEAN, include_license_text \in BOOLEAN :
          context' = NoticeContext(variant, packages, group_by_license, include_license_text)
    /\ batch' = "rendered"
    /\ UNCHANGED <<variant, mode, purl_list, parallel, semaphore, pc, unit, done, packages,
                   order, error_log, local, cache>>
    /\ UNCHANGED mergeVars
    /\ UNCHANGED providerVars

-----------------------------------------------------------------------------
(* Specifications *)

Next ==
    \/ \E i \in Units : Admit(i)
    \/ \E i \in Units : Resume(i)
    \/ \E i \in Units : Hang(i)
    \/ Cancel
    \/ Collect
    \/ Return
    \/ ScanDirectory
    \/ ProcessLocalPath
    \/ FinishDirectory
    \/ ProcessCache
    \/ SaveCache
    \/ SaveCommit
    \/ SaveFail
    \/ GenerateNotices

Spec == Init /\ [][Next]_vars

\* process_batch and process_directory on their own, up to the list they hand
\* back
BatchInit == Init /\ mode # "cache"

BatchNext ==
    \/ \E i \in Units : Admit(i)
    \/ \E i \in Units : Resume(i)
    \/ \E i \in Units : Hang(i)
    \/ Collect
    \/ Return
    \/ ScanDirectory
    \/ ProcessLocalPath
    \/ FinishDirectory

\* what the steps above move on: the units, the batch, the loop over the local paths
progress == <<pc, batch, local.pos>>

\* The moves of the event loop and of the synchronous loops, told by their
\* guards and by what they move on (not by what the step computes): a unit
\* waiting at the semaphore enters once a permit is free, a download returns,
\* the loop over as_completed takes the next finished unit, process_batch
\* returns, and process_directory goes on from one stage to the next.
Scheduled ==
    \/ \E i \in Units :
          /\ LoopRuns /\ pc[i] = "created" /\ ~SemaphoreLocked(semaphore)
          /\ \E to \in {"downloading", "finished"} : pc' = [pc EXCEPT ![i] = to]
          /\ UNCHANGED <<batch, local>>
    \/ \E i \in Units :
          /\ LoopRuns /\ pc[i] = "downloading"
          /\ pc' = [pc EXCEPT ![i] = "finished"]
          /\ UNCHANGED <<batch, local>>
    \/ /\ batch = "running" /\ done # <<>>
       /\ pc' = [pc EXCEPT ![Head(done)] = "collected"]
       /\ batch' \in {batch, "raised"}
       /\ UNCHANGED local
    \/ /\ batch = "running" /\ \A i \in Units : pc[i] = "collected"
       /\ batch' \in {"returned", "local"}
       /\ UNCHANGED <<pc, local>>
    \/ /\ batch = "scanning"
       /\ batch' \in {"running", "local"}
       /\ UNCHANGED <<pc, local>>
    \/ /\ batch = "local" /\ PathIndexes # {}
       /\ \E k \in PathIndexes, calls \in SUBSET {UPMEX, OSLILI} :
             local' = [local EXCEPT !.pos = k, !.calls = calls]
       /\ UNCHANGED <<pc, batch>>
    \/ /\ batch = "local" /\ PathIndexes = {}
       /\ batch' = "returned"
       /\ \E calls \in SUBSET {UPMEX, OSLILI} : local' = [local EXCEPT !.calls = calls]
       /\ UNCHANGED pc

\* every provider call and download returns and the event loop runs every task
\* that is ready: a move that stays possible is made
SpecBatch == BatchInit /\ [][BatchNext]_vars /\ WF_progress(Scheduled)

MergeInit ==
    /\ mode = "merge"
    /\ variant = "core_v2"
    /\ purl_list = <<>>
    /\ parallel = DefaultParallel
    /\ semaphore = parallel
    /\ pc = <<>>
    /\ unit = <<>>
    /\ done = <<>>
    /\ packages = <<>>
    /\ order = <<>>
    /\ error_log = <<>>
    /\ batch = "returned"
    /\ local = [items |-> <<>>, pos |-> 0, calls |-> {}]
    /\ m_input \in SeqsUpTo(MergeUniverse, MaxMerge)
    /\ m_licenses = m_input
    /\ m_combined = <<>>
    /\ m_pos = 0
    /\ cache = CacheStore(PriorDocument, None, 0)
    /\ context = None
    /\ ProviderIdle

MergeNext == CombineLicensesIter

\* the copyright merge on its own: any argument list over a small universe
CopyrightUniverse ==
    {CopyrightInfo(s, src) : s \in {St_Cx, St_cx, St_D}, src \in {UPMEX, OSLILI}}

CopyrightsInit ==
    /\ mode = "copyrights"
    /\ variant = "core_v2"
    /\ purl_list = <<>>
    /\ parallel = DefaultParallel
    /\ semaphore = parallel
    /\ pc = <<>>
    /\ unit = <<>>
    /\ done = <<>>
    /\ packages = <<>>
    /\ order = <<>>
    /\ error_log = <<>>
    /\ batch = "returned"
    /\ local = [items |-> <<>>, pos |-> 0, calls |-> {}]
    /\ m_input \in SeqsUpTo(CopyrightUniverse, MaxCopyrights)
    /\ m_licenses = <<>>
    /\ m_combined = <<>>
    /\ m_pos = 0
    /\ cache = CacheStore(PriorDocument, None, 0)
    /\ context = None
    /\ ProviderIdle

\* one call of _combine_copyrights on the argument m_input
CombineCopyrightsCall ==
    /\ mode = "copyrights"
    /\ m_pos = 0
    /\ m_combined' = CombineCopyrights(m_input)
    /\ m_pos' = 1
    /\ UNCHANGED <<mode, m_input, m_licenses>>
    /\ UNCHANGED batchVars
    /\ UNCHANGED cliVars
    /\ UNCHANGED providerVars

CopyrightsNext == CombineCopyrightsCall

SpecCopyrights == CopyrightsInit /\ [][CopyrightsNext]_vars

SpecMerge == MergeInit /\ [][MergeNext]_vars

\* generate_notices on its own: any package list over a small universe
NoticesInit ==
    /\ mode = "notices"
    /\ variant \in {"core", "core_v2"}
    /\ purl_list = <<>>
    /\ parallel = DefaultParallel
    /\ semaphore = parallel
    /\ pc = <<>>
    /\ unit = <<>>
    /\ done = <<>>
    /\ packages \in SeqsUpTo(NoticePackages, MaxNotice)
    /\ order = <<>>
    /\ error_log = <<>>
    /\ batch = "saved"
    /\ local = [items |-> <<>>, pos |-> 0, calls |-> {}]
    /\ MergeIdle
    /\ cache = CacheStore(PriorDocument, None, 0)
    /\ context = None
    /\ ProviderIdle

NoticesNext == GenerateNotices

SpecNotices == NoticesInit /\ [][NoticesNext]_vars

\* one provider operation on its own
ProviderInit ==
    /\ mode = "provider"
    /\ variant = "core_v2"
    /\ purl_list = <<>>
    /\ parallel = DefaultParallel
    /\ semaphore = parallel
    /\ pc = <<>>
    /\ unit = <<>>
    /\ done = <<>>
    /\ packages = <<>>
    /\ order = <<>>
    /\ error_log = <<>>
    /\ batch = "provider"
    /\ local = [items |-> <<>>, pos |-> 0, calls |-> {}]
    /\ MergeIdle
    /\ cache = CacheStore(PriorDocument, None, 0)
    /\ context = None
    /\ p_call \in ProviderCalls
    /\ p_result = None

\* the operation runs and returns its result
ProviderReturn ==
    /\ batch = "provider"
    /\ p_result' = Invoke(p_call)
    /\ batch' = "provided"
    /\ UNCHANGED <<variant, mode, purl_list, parallel, semaphore, pc, unit, done, packages,
                   order, error_log, local, p_call>>
    /\ UNCHANGED mergeVars
    /\ UNCHANGED cliVars

ProviderNext == ProviderReturn

SpecProviders == ProviderInit /\ [][ProviderNext]_vars

-----------------------------------------------------------------------------
(* Properties *)

Returned == batch = "returned"

\* process_batch has returned its list (in scan mode process_directory then goes on)
BatchReturned == batch \in {"returned", "local"} /\ purl_list # <<>>

UnitAt(k) == order[k].kind = "unit"

EnvAt(k) == World(purl_list[order[k].idx])

\* C1: at every point of process_batch the units that have started and not
\* finished are at most P, no permit is handed out that the semaphore does not
\* have, and free permits + in-flight units = P, whatever way (return or
\* exception) the finished units left.
C1_PermitBalance ==
    /\ semaphore >= 0
    /\ Cardinality(InFlight) <= parallel
    /\ semaphore + Cardinality(InFlight) = parallel

\* C1 witness: the gate is closed: P units are in flight, no permit is free
\* and another unit waits.
C1_GateClosed ==
    /\ semaphore = 0
    /\ Cardinality(InFlight) = parallel
    /\ \E i \in Units : pc[i] = "created"

\* C2: when process_batch returns, its list holds exactly one Package per
\* position of the identifier list: as many entries as identifiers, each
\* unit's package exactly once, in completion order.
C2_OnePackagePerIdentifier ==
    BatchReturned =>
        /\ Len(packages) = Len(order)
        /\ Cardinality({k \in 1..Len(order) : UnitAt(k)}) = Len(purl_list)
        /\ \A i \in Units :
              Cardinality({k \in 1..Len(order) : UnitAt(k) /\ order[k].idx = i}) = 1
        /\ \A k \in 1..Len(order) :
              UnitAt(k) => /\ packages[k] = unit[order[k].idx].package
                           /\ packages[k].purl = purl_list[order[k].idx]

\* C2 witness: process_batch has returned two packages, one of them FAILED,
\* in an order that is not the input order.
C2_ReturnedOutOfOrder ==
    /\ batch = "returned"
    /\ mode = "kissbom"
    /\ Len(purl_list) = 2
    /\ order = <<[kind |-> "unit", idx |-> 2], [kind |-> "unit", idx |-> 1]>>
    /\ \E k \in 1..2 : packages[k].status = FAILED

\* the steps of a unit at which an exception is raised, given how far the unit gets
ExceptionRaised(env) ==
    \/ env.fault = "validate"
    \/ /\ env.valid
       /\ \/ env.resolution = "raise"
          \/ env.resolution = "url" /\ env.download = "raise"
          \/ /\ env.resolution = "url"
             /\ env.download = "ok"
             /\ \/ env.upmex.outcome = "raise"
                \/ env.oslili.outcome = "raise"
                \/ env.fault \in {"merge", "cleanup"}

\* C3: an unexpected exception raised at any step of one unit never aborts the
\* batch, and the unit it was raised in yields a Package with status FAILED.
C3_ExceptionIsolated ==
    /\ batch # "raised"
    /\ \A k \in 1..Len(order) :
          (UnitAt(k) /\ ExceptionRaised(EnvAt(k))) => packages[k].status = FAILED

\* C4: in every returned Package the status is the one the license/copyright
\* rule gives (no licenses: NO_LICENSE; licenses and no copyrights:
\* NO_COPYRIGHT; both: SUCCESS) unless it is FAILED or UNAVAILABLE.
C4_StatusFollowsCounts ==
    Returned =>
        \A k \in 1..Len(packages) :
            packages[k].status \notin {FAILED, UNAVAILABLE} =>
                packages[k].status = StatusFor(packages[k].licenses, packages[k].copyrights)

SameKeyAs(i) == {j \in 1..Len(m_input) : j # i /\ LicenseKey(m_input[j]) = LicenseKey(m_input[i])}

\* C5: in the license merge, a record whose confidence is strictly higher than
\* that of every other record of its key is the merged record of that key,
\* with its own source, confidence and text.
C5_ConfidenceDominates ==
    m_done =>
        \A i \in 1..Len(m_input) :
            (SameKeyAs(i) # {} /\ \A j \in SameKeyAs(i) : m_input[j].confidence < m_input[i].confidence)
                => \E k \in 1..Len(m_result) : m_result[k] = m_input[i]

NoDuplicateLicenseKeys(package) ==
    \A a, b \in 1..Len(package.licenses) :
        LicenseKey(package.licenses[a]) = LicenseKey(package.licenses[b]) => a = b

\* C6: no returned Package holds two license records with the same
\* (spdx_id, name) key.
C6_LicensesDeduplicated ==
    Returned => \A k \in 1..Len(packages) : NoDuplicateLicenseKeys(packages[k])

NoDuplicateStatements(package) ==
    \A a, b \in 1..Len(package.copyrights) :
        NormalizeStatement(package.copyrights[a].statement)
            = NormalizeStatement(package.copyrights[b].statement) => a = b

\* C7: no returned Package holds two copyright records whose statements are
\* equal after trimming and lower-casing.
C7_CopyrightsDeduplicated ==
    Returned => \A k \in 1..Len(packages) : NoDuplicateStatements(packages[k])

AllProvidersFail(env) ==
    /\ env.valid
    /\ env.fault = "none"
    /\ env.resolution = "url"
    /\ env.download = "ok"
    /\ env.upmex.outcome # "ok"
    /\ env.oslili.outcome # "ok"

ProviderErrors(purl) ==
    UpmexExtractFromPath(World(purl).upmex, PackagePath(purl)).errors
        \o OsliliExtractFromPath(World(purl).oslili, PackagePath(purl)).errors

\* C8: when resolution and download succeeded and both the manifest provider
\* and the scanner fail, the Package is FAILED and its error_message is the
\* concatenation of the providers' error strings.
C8_TotalProviderFailure ==
    \A k \in 1..Len(order) :
        (UnitAt(k) /\ AllProvidersFail(EnvAt(k))) =>
            /\ packages[k].status = FAILED
            /\ packages[k].error_message = Message(ProviderErrors(purl_list[order[k].idx]))

\* C9: UNAVAILABLE is assigned only when resolution or the download failed, and
\* an exception raised in the merge of a package's evidence gives FAILED.
C9_UnavailableOnlyOnResolution ==
    \A k \in 1..Len(order) :
        UnitAt(k) =>
            /\ packages[k].status = UNAVAILABLE =>
                  (EnvAt(k).resolution # "url" \/ EnvAt(k).download # "ok")
            /\ (EnvAt(k).valid /\ EnvAt(k).resolution = "url" /\ EnvAt(k).download = "ok"
                    /\ EnvAt(k).fault = "merge") => packages[k].status = FAILED

\* C10: every Package returned by process_batch or process_directory carries a
\* terminal status; none is still PENDING.
C10_TerminalStatus ==
    Returned => \A k \in 1..Len(packages) : packages[k].status \in TerminalStatuses

-----------------------------------------------------------------------------
(* Properties of the notices *)

\* generate_notices has run and grouped the packages
Grouped == batch = "rendered" /\ context.group_by_license

IdSet(package) == {package.licenses[k].spdx_id : k \in 1..Len(package.licenses)}

\* the ids of a set as the one sequence that lists them in ascending order
AscendingIds(ids) ==
    CHOOSE s \in [1..Cardinality(ids) -> ids] :
        /\ Range(s) = ids
        /\ \A a, b \in 1..Cardinality(ids) : a < b => Rank(s[a]) < Rank(s[b])

\* the license key as the grouping contract defines it
ClaimedKey(package) ==
    IF Len(package.licenses) = 1 THEN <<package.licenses[1].spdx_id>>
    ELSE Join(AscendingIds(IdSet(package)))

HasKey(package, key) == package.licenses # <<>> /\ ClaimedKey(package) = key

\* C11: grouping puts every package that has a license in exactly one group,
\* the one of its license key, exactly once, keeps no empty group, and puts a
\* package without licenses in no group: each group is the list of the
\* packages of its key, and every key of a package has its group.
C11_GroupingPartition ==
    Grouped =>
        LET groups == context.packages_by_license
        IN  /\ \A g, h \in 1..Len(groups) : groups[g].key = groups[h].key => g = h
            /\ \A g \in 1..Len(groups) :
                  /\ groups[g].packages # <<>>
                  /\ groups[g].packages = SelectSeq(packages, LAMBDA p : HasKey(p, groups[g].key))
            /\ \A k \in 1..Len(packages) :
                  packages[k].licenses # <<>> =>
                      \E g \in 1..Len(groups) : groups[g].key = ClaimedKey(packages[k])

\* C11 witness: the license-id sets {MIT}, {MIT}, {Apache-2.0, MIT}, {} give
\* exactly the keys "Apache-2.0, MIT" (1 package) and "MIT" (2 packages).
C11_ExampleGrouped ==
    /\ Grouped
    /\ Len(packages) = 4
    /\ [k \in 1..4 |-> IdSet(packages[k])] = <<{"MIT"}, {"MIT"}, {"Apache-2.0", "MIT"}, {}>>
    /\ Len(context.packages_by_license) = 2
    /\ context.packages_by_license[1].key = <<"Apache-2.0", ", ", "MIT">>
    /\ context.packages_by_license[1].packages = <<packages[3]>>
    /\ context.packages_by_license[2].key = <<"MIT">>
    /\ context.packages_by_license[2].packages = <<packages[1], packages[2]>>

InGroup(package, group) == \E k \in 1..Len(group.packages) : group.packages[k] = package

\* C12: the key a package is filed under is its single spdx_id when it has one
\* license record, else its unique spdx_ids in ascending order joined by ", ";
\* two packages with the same set of ids are filed under the same key,
\* whatever the order and multiplicity of their records.
C12_KeyOfPackage ==
    Grouped =>
        LET groups == context.packages_by_license
        IN  /\ \A k \in 1..Len(packages), g \in 1..Len(groups) :
                  InGroup(packages[k], groups[g]) => groups[g].key = ClaimedKey(packages[k])
            /\ \A j, k \in 1..Len(packages), g \in 1..Len(groups) :
                  (IdSet(packages[j]) = IdSet(packages[k]) /\ InGroup(packages[j], groups[g]))
                      => InGroup(packages[k], groups[g])

\* C12 witness: two packages that list the same two ids in opposite orders, and
\* one that lists one id twice, have been grouped.
C12_SameIdsGrouped ==
    /\ Grouped
    /\ \E j, k, m \in 1..Len(packages) :
          /\ Len(packages[j].licenses) = 2
          /\ Len(packages[k].licenses) = 2
          /\ packages[j].licenses[1].spdx_id = packages[k].licenses[2].spdx_id
          /\ packages[j].licenses[2].spdx_id = packages[k].licenses[1].spdx_id
          /\ packages[j].licenses[1].spdx_id # packages[j].licenses[2].spdx_id
          /\ Len(packages[m].licenses) = 2
          /\ packages[m].licenses[1].spdx_id = packages[m].licenses[2].spdx_id

\* the packages of the identifier list in input order, as process_single_purl returns them
InputOrderPackages == [i \in 1..Len(purl_list) |-> PackageOf(variant, purl_list[i])]

\* C13: the grouped mapping handed to the template is a function of the
\* identifier list and the providers' outputs alone: it is the mapping of the
\* run whose units complete in input order, whatever order they completed in.
C13_GroupingDeterministic ==
    (Grouped /\ mode = "kissbom") =>
        context.packages_by_license = GroupByLicense(InputOrderPackages)

\* C14: for each SPDX id the packages need, the lookup holds a text carried by
\* a license record of that id when some package carries one, the bundled
\* text when none does and the id is bundled, and no entry otherwise.
C14_LicenseTextPreference ==
    (batch = "rendered" /\ context.include_license_text) =>
        \A id \in NeededLicenses(packages) :
            IF Carriers(packages, id) # {}
            THEN /\ id \in DOMAIN context.license_texts
                 /\ \E k \in 1..Len(packages) : \E j \in 1..Len(packages[k].licenses) :
                        /\ packages[k].licenses[j].spdx_id = id
                        /\ packages[k].licenses[j].text # ""
                        /\ packages[k].licenses[j].text = context.license_texts[id]
            ELSE IF id \in BundledLicenses
            THEN /\ id \in DOMAIN context.license_texts
                 /\ context.license_texts[id] = BundledText(id)
            ELSE id \notin DOMAIN context.license_texts

-----------------------------------------------------------------------------
(* Properties of the Cache Store and of cache mode *)

\* the save of this run has completed
Saved == batch \in {"saved", "rendered"} /\ cache.writes > 0

C16_SaveAtomic ==
    mode \in {"kissbom", "scan"} =>
        /\ cache.file \in {PriorDocument, CacheDocument(packages)}
        /\ batch \in {"saving", "exit"} => cache.file = PriorDocument
        /\ Saved => cache.file = CacheDocument(packages)

\* C16 witness: a save is under way: the new document, different from the
\* prior one, is written and readers still see the prior document.
C16_SaveUnderWay ==
    /\ batch = "saving"
    /\ Len(packages) = 2
    /\ cache.tmp = CacheDocument(packages)
    /\ cache.file = PriorDocument

\* C17: in cache mode the package list is what loading the Cache Store gives:
\* no unit of work exists, no provider is called for a path, nothing is logged,
\* process_batch and process_directory are never entered, and the cache file
\* is neither being written nor replaced.
C17_CacheModeLoadsOnly ==
    mode = "cache" =>
        /\ batch \in {"loading", "loaded", "saved", "rendered"}
        /\ Units = {}
        /\ local.calls = {}
        /\ error_log = <<>>
        /\ cache.writes = 0
        /\ batch # "loading" => packages = CacheLoad(cache.file)

\* C17 witness: cache mode has loaded two packages and generated the notices.
C17_CacheModeRendered ==
    /\ mode = "cache"
    /\ batch = "rendered"
    /\ Len(packages) = 2

-----------------------------------------------------------------------------
(* Properties of validation, of the providers and of the error log *)

Completed(i) == pc[i] \in {"finished", "collected"}

Malformed(purl) == ~World(purl).valid /\ World(purl).fault # "validate"

\* the entries of the log that name the identifier
EntriesFor(purl) == {k \in 1..Len(error_log) : error_log[k][Len(error_log[k])] = purl}

\* C18: a unit whose identifier is malformed completes without raising, with
\* a FAILED Package that carries an error_message, without having called the
\* resolution, the download or an inspecting provider; and the log holds one
\* entry for each completed unit of that identifier.
C18_MalformedNeverReachesProviders ==
    \A i \in Units :
        (Completed(i) /\ Malformed(purl_list[i])) =>
            /\ ~unit[i].raised
            /\ unit[i].package.status = FAILED
            /\ ~unit[i].package.error_message.is_none
            /\ unit[i].calls = <<>>
            /\ Cardinality(EntriesFor(purl_list[i]))
                  = Cardinality({j \in Units : Completed(j) /\ purl_list[j] = purl_list[i]})

\* C18 witness: a malformed identifier has completed next to one that went
\* through resolution, download and both inspecting providers.
C18_MalformedCompleted ==
    \E i, j \in Units :
        /\ Completed(i)
        /\ Malformed(purl_list[i])
        /\ Completed(j)
        /\ unit[j].calls = <<PURL2SRC, "download", UPMEX, OSLILI>>

\* the calls that are a failure of the provider: an operation it does not
\* support, a library that is missing, raises or returns nothing, no download
\* url, a failed download, an exception in the merge, both inspecting
\* providers failing
ProviderFails(call) ==
    LET env == World(call.purl)
        upmex == UpmexExtractFromPath(call.upmex, call.path)
        oslili == OsliliExtractFromPath(call.oslili, call.path)
    IN  CASE call.provider = UPMEX -> call.operation = "purl" \/ call.upmex.outcome # "ok"
          [] call.provider = OSLILI -> call.operation = "purl" \/ call.oslili.outcome # "ok"
          [] call.provider = PURL2SRC -> call.operation = "path" \/ env.resolution # "url"
          [] call.operation = "purl" ->
                \/ env.resolution # "url"
                \/ env.download # "ok"
                \/ env.fault = "merge"
                \/ (env.upmex.outcome # "ok" /\ env.oslili.outcome # "ok")
          [] OTHER -> ~oslili.success /\ (call.is_package_file => ~upmex.success)

\* C19: every provider operation returns an ExtractionResult; a failure of
\* the provider is returned with success = false, and every result with
\* success = false carries at least one error string.
C19_ProvidersReportFailure ==
    batch = "provided" =>
        /\ ProviderFails(p_call) => ~p_result.success
        /\ ~p_result.success => p_result.errors # <<>>

\* the sub-operations of a completed unit that failed: the resolution, the
\* download, each inspecting provider that was called, an exception in the
\* engine's own code (core_v2 ignores one raised by the removal of the artifact)
FailedSubOperations(v, purl) ==
    LET env == World(purl)
        inspected == env.valid /\ env.fault # "validate" /\ env.resolution = "url"
                        /\ env.download = "ok"
        failed(raw) == IF v = "core" THEN raw.outcome = "raise" ELSE raw.outcome # "ok"
    IN  (IF env.fault = "validate" THEN 1 ELSE 0)
      + (IF env.fault # "validate" /\ env.valid /\ env.resolution # "url" THEN 1 ELSE 0)
      + (IF env.fault # "validate" /\ env.valid /\ env.resolution = "url" /\ env.download # "ok"
         THEN 1 ELSE 0)
      + (IF inspected /\ failed(env.upmex) THEN 1 ELSE 0)
      + (IF inspected /\ failed(env.oslili) THEN 1 ELSE 0)
      + (IF inspected /\ (env.fault = "merge" \/ (v = "core" /\ env.fault = "cleanup"))
         THEN 1 ELSE 0)

RECURSIVE FailedSoFar(_)
FailedSoFar(i) ==
    IF i = 0 THEN 0
    ELSE FailedSoFar(i - 1)
         + (IF Completed(i) THEN FailedSubOperations(variant, purl_list[i]) ELSE 0)

\* C20: by the time a unit completes, every sub-operation of it that failed
\* has put at least one entry in the error log, also when another provider of
\* the same package succeeded, and no entry of another unit is lost: the log
\* holds at least as many entries as sub-operations failed in completed units.
C20_FailuresLogged ==
    batch \in {"running", "returned", "local"} =>
        Len(error_log) >= FailedSoFar(Len(purl_list))

-----------------------------------------------------------------------------
(* Properties of termination, of the output list and of the pipeline order *)

AllCollected == \A i \in Units : pc[i] = "collected"

\* process_batch has handed its list back to its caller
BatchHasReturned == batch \notin {"scanning", "running", "raised", "blocked"} /\ AllCollected

\* a provider call did not return
Blocked == batch = "blocked"

\* C21: for every limit P >= 1 and every finite identifier list, when every
\* provider call and download returns, a process_batch that was started
\* eventually returns, with every unit admitted, completed and collected.
C21_BatchEventuallyReturns ==
    (batch = "running" /\ parallel >= 1) ~> (BatchHasReturned \/ Blocked)

\* two entries of the output list for one PURL
SamePurl(j, k) == packages[j].purl # None /\ packages[j].purl = packages[k].purl

\* C22: the output of the processing holds at most one Package per distinct
\* PURL, also when the PURL is repeated in the identifier list or detected in
\* several files of the scanned directory.
C22_OnePackagePerPurl ==
    batch = "returned" =>
        \A j \in 1..Len(packages), k \in 1..Len(packages) : j # k => ~SamePurl(j, k)

\* main is over: the notices were output, or main reported an error and exited
MainEnded == batch \in {"rendered", "exit"}

NoticesOutput == batch = "rendered"

\* C23: in the modes other than cache, a failure of the Cache Store (a save
\* that raises) does not affect the freshly computed packages: the notices
\* are still generated and output for them.
C23_CacheFailureHarmless ==
    (mode \in {"kissbom", "scan"} /\ packages # <<>> /\ MainEnded) => NoticesOutput

\* the steps of one package in their order: resolution, download, manifest
\* provider, scanner
Pipeline == <<PURL2SRC, "download", UPMEX, OSLILI>>

IsPrefix(s, full) == Len(s) <= Len(full) /\ SubSeq(full, 1, Len(s)) = s

Called(i, step) == \E k \in 1..Len(unit[i].calls) : unit[i].calls[k] = step

\* C24: within one package the steps run in the order resolution, download,
\* manifest provider, scanner; the download starts only after the resolution
\* gave a URL, the inspecting providers are invoked only after the download
\* succeeded, and when the resolution or the download fails no later step is
\* invoked for the package and its status is UNAVAILABLE.
C24_PipelineOrder ==
    \A i \in Units :
        LET env == World(purl_list[i])
        IN  /\ IsPrefix(unit[i].calls, Pipeline)
            /\ Called(i, "download") => env.resolution = "url"
            /\ (Called(i, UPMEX) \/ Called(i, OSLILI)) =>
                   (env.resolution = "url" /\ env.download = "ok")
            /\ (Completed(i) /\ Called(i, PURL2SRC) /\ env.resolution # "url") =>
                   (unit[i].calls = <<PURL2SRC>> /\ unit[i].package.status = UNAVAILABLE)
            /\ (Completed(i) /\ Called(i, "download") /\ env.download # "ok") =>
                   (unit[i].calls = <<PURL2SRC, "download">>
                    /\ unit[i].package.status = UNAVAILABLE)

\* one unit went through the whole pipeline and another stopped at its download
C24_FullAndShortCircuited ==
    \E i \in Units, j \in Units :
        /\ Completed(i) /\ unit[i].calls = Pipeline
        /\ Completed(j) /\ World(purl_list[j]).download # "ok"
        /\ unit[j].calls = <<PURL2SRC, "download">>

\* C25: within one run the status of a package is assigned a terminal value
\* at most once: after it was set to SUCCESS, NO_LICENSE, NO_COPYRIGHT,
\* UNAVAILABLE or FAILED, no later step of the run (in particular the removal
\* of the artifact after the merge) changes it to a different status.
C25_StatusAssignedOnce ==
    \A i \in Units :
        /\ Len(unit[i].statuses) <= 1
        /\ (Completed(i) /\ unit[i].statuses # <<>>) =>
               unit[i].package.status = unit[i].statuses[1]

\* unit i was short-circuited at its download: the resolution gave a URL and
\* the download failed
DownloadShortCircuited(i) ==
    /\ Completed(i) /\ ~unit[i].raised
    /\ unit[i].calls = <<PURL2SRC, "download">>
    /\ World(purl_list[i]).download # "ok"

\* C26: a package short-circuited to UNAVAILABLE after the resolution
\* succeeded and the download failed carries in its metadata what the
\* resolution provider gathered (download_url, repository_url, homepage_url).
C26_PartialMetadataAttached ==
    \A i \in Units :
        DownloadShortCircuited(i) =>
            /\ unit[i].package.status = UNAVAILABLE
            /\ (DOMAIN Purl2SrcMetadata) \subseteq (DOMAIN unit[i].package.metadata)

\* C27: concurrently running units share nothing but the error log and the
\* completed count: the artifact file one unit downloads is never read, reused
\* or deleted by another unit, for any two identifiers of the batch
\* (duplicates and identifiers that differ only in their namespace included).
C27_ArtifactsNotShared ==
    \A i \in Units :
        /\ unit[i].artifact \in {0, i}
        /\ ~unit[i].lost

\* C28: every provider call is subject to a timeout: a call that never
\* returns on its own is turned into a provider failure, so that the package
\* still gets a terminal status, its permit is released and the batch is not
\* blocked.
C28_ProviderCallsTimeOut ==
    Blocked ~> (BatchHasReturned /\ semaphore = parallel)

\* the batch was cancelled
Cancelled == batch \in {"cancelled", "interrupted"}

\* C29: once the batch is cancelled, no unit that has not yet been admitted
\* through the concurrency gate starts: no process_single_purl begins after
\* the cancellation, the units in flight finish or are abandoned.
C29_NoAdmissionAfterCancel ==
    [][Cancelled => \A i \in Units : pc[i] = "created" => pc'[i] = "created"]_vars

\* records i and j, in this order, are the two records of their key and have
\* the same confidence
TiedPair(i, j) ==
    /\ i < j
    /\ SameKeyAs(i) = {j}
    /\ m_input[i].confidence = m_input[j].confidence

\* what the tie-break rule allows as the merged record of first and second
TieBroken(merged, first, second) ==
    IF first.text # "" /\ second.text # ""
    THEN /\ merged.source = first.source
         /\ merged.confidence = first.confidence
         /\ LicenseKey(merged) = LicenseKey(first)
         /\ merged.text \in {first.text, second.text}
         /\ Len(merged.text) >= Len(first.text)
         /\ Len(merged.text) >= Len(second.text)
    ELSE IF second.text # "" THEN merged = second
    ELSE merged = first

\* C30: in the license merge, for two records with the same key and equal
\* confidence: when exactly one carries text that one is retained; when both
\* carry text the merged record has the longer text with the source and the
\* confidence of the first; when neither carries text the first is retained.
C30_EqualConfidenceTieBreak ==
    m_done =>
        \A i, j \in 1..Len(m_input) :
            TiedPair(i, j) =>
                \E k \in 1..Len(m_result) :
                    /\ LicenseKey(m_result[k]) = LicenseKey(m_input[i])
                    /\ TieBroken(m_result[k], m_input[i], m_input[j])

\* a merge that is over, of a tied pair whose second record has the longer
\* text and another source, next to a record of another key
C30_LongerTextOfSecond ==
    /\ m_done
    /\ Len(m_input) = 3
    /\ \E i, j \in 1..Len(m_input) :
          /\ TiedPair(i, j)
          /\ m_input[i].text # ""
          /\ Len(m_input[j].text) > Len(m_input[i].text)
          /\ m_input[i].source # m_input[j].source
          /\ \E k \in 1..Len(m_result) :
                m_result[k] = [m_input[i] EXCEPT !.text = m_input[j].text]

-----------------------------------------------------------------------------
(* Properties of the merge order, of the metadata and of the grouping *)

\* the keys of a list of records, each at the place of its first occurrence
RECURSIVE FirstOccurrences(_, _)
FirstOccurrences(licenses, seen) ==
    IF licenses = <<>> THEN <<>>
    ELSE LET key == LicenseKey(Head(licenses))
         IN  IF key \in seen THEN FirstOccurrences(Tail(licenses), seen)
             ELSE <<key>> \o FirstOccurrences(Tail(licenses), seen \cup {key})

\* C31: the license merge outputs one record per key, in the order in which
\* each key first occurred in its input; replacing the record held for a key
\* does not move the key, and the order does not depend on confidence.
C31_FirstOccurrenceOrder ==
    m_done =>
        [k \in 1..Len(m_result) |-> LicenseKey(m_result[k])] = FirstOccurrences(m_input, {})

\* a merge that is over in which the record of the first key was replaced by
\* a later record of higher confidence, behind a record of another key
C31_ReplacedInPlace ==
    /\ m_done
    /\ Len(m_input) = 3
    /\ LicenseKey(m_input[1]) = LicenseKey(m_input[3])
    /\ LicenseKey(m_input[1]) # LicenseKey(m_input[2])
    /\ m_input[3].confidence > m_input[1].confidence
    /\ m_input[3].confidence > m_input[2].confidence
    /\ m_result[1] = m_input[3]
    /\ Len(m_result) = 2

\* _combine_copyrights has returned
c_done == mode = "copyrights" /\ m_pos = 1

\* record i of the argument is the first one with its normalized statement
FirstOfStatement(i) ==
    \A j \in 1..(i - 1) :
        NormalizeStatement(m_input[j].statement) # NormalizeStatement(m_input[i].statement)

\* the records of the argument from position i on that are the first of their
\* normalized statement, in the order of the argument
RECURSIVE FirstRecordsFrom(_)
FirstRecordsFrom(i) ==
    IF i > Len(m_input) THEN <<>>
    ELSE IF FirstOfStatement(i) THEN <<m_input[i]>> \o FirstRecordsFrom(i + 1)
    ELSE FirstRecordsFrom(i + 1)

\* C32: the copyright merge returns exactly the subsequence of its input made
\* of the first record of each normalized (trimmed, lower-cased) statement:
\* that record verbatim, later records of the statement dropped with none of
\* their fields merged, the relative order kept.
C32_FirstRecordPerStatement ==
    c_done => m_combined = FirstRecordsFrom(1)

\* a merge that has returned in which the second record, of another source
\* and differing from the first in case and trailing blank only, was dropped
\* and a third record of another statement was kept behind the first
C32_LaterDuplicateDropped ==
    /\ c_done
    /\ Len(m_input) = 3
    /\ m_input[1].statement # m_input[2].statement
    /\ m_input[1].source # m_input[2].source
    /\ NormalizeStatement(m_input[1].statement) = NormalizeStatement(m_input[2].statement)
    /\ m_combined = <<m_input[1], m_input[3]>>

\* unit i of the combined pipeline has ended with a Package built from the
\* providers' evidence, after inspecting the file it downloaded itself
Reconciled(i) ==
    /\ variant = "core_v2"
    /\ pc[i] \in {"finished", "collected"}
    /\ ~unit[i].raised
    /\ unit[i].artifact = i
    /\ unit[i].package.status \in {SUCCESS, NO_LICENSE, NO_COPYRIGHT}

\* what the providers returned to unit i, in the order of the pipeline
ProviderResults(i) ==
    LET purl == purl_list[i]
        env == IF unit[i].lost THEN FileEnv(purl, Unreadable) ELSE World(purl)
    IN  <<Purl2SrcExtractFromPurl(env.resolution, purl),
          UpmexExtractFromPath(env.upmex, PackagePath(purl)),
          OsliliExtractFromPath(env.oslili, PackagePath(purl))>>

\* the providers among results whose successful result sets key k
Writers(results, k) ==
    {n \in 1..3 : results[n].success /\ k \in DOMAIN results[n].metadata}

LastWriter(results, k) ==
    CHOOSE n \in Writers(results, k) : \A o \in Writers(results, k) : o <= n

MixedOutcome(i) ==
    LET env == World(purl_list[i])
    IN  /\ pc[i] \in {"finished", "collected"}
        /\ ~unit[i].raised
        /\ unit[i].artifact = i
        /\ ~unit[i].lost
        /\ env.fault = "none"
        /\ (env.upmex.outcome = "ok") # (env.oslili.outcome = "ok")

\* the package holds what the one successful provider of its unit found
FromSuccessfulProvider(package, env) ==
    LET source == IF env.upmex.outcome = "ok" THEN UPMEX ELSE OSLILI
        raw == IF env.upmex.outcome = "ok" THEN env.upmex ELSE env.oslili
    IN  /\ (package.licenses = <<>>) <=> (raw.licenses = <<>>)
        /\ (package.copyrights = <<>>) <=> (raw.copyrights = <<>>)
        /\ \A k \in 1..Len(package.licenses) : package.licenses[k].source = source

\* C34: a returned Package carries an error_message exactly when its status is
\* FAILED or UNAVAILABLE; when some providers of a package fail and others
\* succeed the Package is built from the evidence of those that succeeded,
\* gets its status from the license/copyright rule and no error_message.
C34_ErrorMessageIffFailed ==
    /\ Returned =>
          \A k \in 1..Len(packages) :
              (~packages[k].error_message.is_none)
                  <=> (packages[k].status \in {FAILED, UNAVAILABLE})
    /\ \A i \in Units :
          MixedOutcome(i) =>
              LET package == unit[i].package
              IN  /\ package.error_message = NoMessage
                  /\ package.status = StatusFor(package.licenses, package.copyrights)
                  /\ FromSuccessfulProvider(package, World(purl_list[i]))

\* a batch has returned a package without error_message for a unit whose
\* manifest provider succeeded and whose scanner failed, next to a package
\* that is UNAVAILABLE with its error_message
C34_MixedNextToUnavailable ==
    /\ Returned
    /\ \E i \in Units :
          /\ MixedOutcome(i)
          /\ World(purl_list[i]).upmex.outcome = "ok"
          /\ unit[i].package.status = NO_COPYRIGHT
    /\ \E k \in 1..Len(packages) :
          packages[k].status = UNAVAILABLE /\ ~packages[k].error_message.is_none

\* C35: reconciliation never modifies a provider's ExtractionResult: during
\* and after the license merge every record of the providers' results,
\* its text included, has the values it had when the provider returned it.
C35_ProviderResultsUntouched ==
    mode = "merge" => m_licenses = m_input

\* C36: the keys of the grouping are iterated in ascending lexicographic
\* order, and within each group the packages are in the same relative order
\* as in the input package list.
C36_GroupingOrder ==
    Grouped =>
        LET groups == context.packages_by_license
        IN  /\ \A g, h \in 1..Len(groups) : g < h => KeyLess(groups[g].key, groups[h].key)
            /\ \A g \in 1..Len(groups) :
                  groups[g].packages = SelectSeq(packages, LAMBDA p : InGroup(p, groups[g]))

\* a grouping in which the key of the first package is not the first key and
\* a group holds two different packages
C36_KeysReordered ==
    /\ Grouped
    /\ Len(context.packages_by_license) >= 2
    /\ ~InGroup(packages[1], context.packages_by_license[1])
    /\ \E g \in 1..Len(context.packages_by_license) :
          /\ InGroup(packages[1], context.packages_by_license[g])
          /\ Len(context.packages_by_license[g].packages) = 2
          /\ context.packages_by_license[g].packages[1] # context.packages_by_license[g].packages[2]

\* unit i of the combined pipeline has invoked an artifact-inspecting provider
Inspected(i) == variant = "core_v2" /\ (Called(i, UPMEX) \/ Called(i, OSLILI))

\* C37: whenever the artifact-inspecting providers are invoked for a package
\* in the combined pipeline, the file they are given was written completely by
\* the package's own download and is still present: no unit picks up a file
\* that a unit in flight is still writing, none has its file removed by the
\* cleanup of another unit before it inspects it.
C37_InspectedFileCompleteAndPresent ==
    \A i \in Units :
        Inspected(i) => (unit[i].artifact = i /\ ~unit[i].lost)

\* C38: with a concurrency limit of 0 and a non-empty identifier list no unit
\* of work is ever admitted, the completed count stays 0 and process_batch
\* never returns.
C38_ZeroLimitNeverAdmits ==
    (mode = "kissbom" /\ parallel = 0 /\ purl_list # <<>>) =>
        /\ \A i \in Units : pc[i] = "created" /\ unit[i] = NoUnit
        /\ done = <<>>
        /\ packages = <<>>
        /\ batch \in {"running", "cancelled", "interrupted"}

\* a batch of two identifiers with limit 0 that was cancelled after waiting:
\* the event loop still runs and both units still wait for a permit
C38_StillWaitingAfterCancel ==
    /\ mode = "kissbom"
    /\ parallel = 0
    /\ Len(purl_list) = 2
    /\ batch = "cancelled"
    /\ \A i \in Units : pc[i] = "created"


=============================================================================
